---------------------------- MODULE Spec2Model ----------------------------
(***************************************************************************)
(* A model of AutoScType (src/src/core/type_generator.py, and at the end    *)
(* the cost estimate of src/src/utils/retro_cli.py and the token            *)
(* interactions of src/src/core/parser.py):                                 *)
(*   - the annotation normaliser, TypeGenerator._process_annotation_response*)
(*     together with make_api_call and the no-client branch that produce   *)
(*     the two documents of a contract;                                     *)
(*   - the reference resolver of TypeGenerator._generate_type_annotations:  *)
(*     the six binding heuristics, the external-call discovery scans and  *)
(*     the contract descriptor;                                             *)
(*   - TypeGenerator.generate_type_files: the loop over the files, the two  *)
(*     tasks of the worker pool with the token counters of _call_llm, and   *)
(*     the writes of the documents.                                         *)
(*                                                                         *)
(* Text is modelled as the code sees it.  A Python str is a sequence of     *)
(* one-character strings; the str methods the code uses (split, join,       *)
(* strip, in, startswith, endswith, replace, isdigit) are operators on such *)
(* sequences.  The regular expressions are translated node by node and    *)
(* run by a backtracking matcher with re.finditer's leftmost,               *)
(* non-overlapping scan.                                                    *)
(***************************************************************************)
EXTENDS Integers, Sequences, FiniteSets, TLC

(***************************************************************************)
(* Python str operations on sequences of characters.                        *)
(***************************************************************************)
Whitespace == {" ", "\n", "\t", "\r"}

Digits == <<"0", "1", "2", "3", "4", "5", "6", "7", "8", "9">>

IsDigitChar(c) == \E d \in 1..10 : Digits[d] = c

DigitVal(c) == (CHOOSE d \in 1..10 : Digits[d] = c) - 1

\* sub in s
Contains(s, sub) ==
    \E i \in 1..(Len(s) - Len(sub) + 1) : SubSeq(s, i, i + Len(sub) - 1) = sub

\* s.startswith(p)
StartsWith(s, p) == Len(s) >= Len(p) /\ SubSeq(s, 1, Len(p)) = p

\* s.endswith(p)
EndsWith(s, p) == Len(s) >= Len(p) /\ SubSeq(s, Len(s) - Len(p) + 1, Len(s)) = p

\* s.lstrip()
RECURSIVE LStrip(_)
LStrip(s) ==
    IF s # <<>> /\ Head(s) \in Whitespace THEN LStrip(Tail(s)) ELSE s

\* s.rstrip()
RECURSIVE RStrip(_)
RStrip(s) ==
    IF s # <<>> /\ s[Len(s)] \in Whitespace
    THEN RStrip(SubSeq(s, 1, Len(s) - 1)) ELSE s

\* s.strip()
Strip(s) == RStrip(LStrip(s))

\* s.rstrip(c) for a one-character argument
RECURSIVE RStripChar(_, _)
RStripChar(s, c) ==
    IF s # <<>> /\ s[Len(s)] = c
    THEN RStripChar(SubSeq(s, 1, Len(s) - 1), c) ELSE s

\* s.isdigit()
IsDigit(s) == s # <<>> /\ \A i \in 1..Len(s) : IsDigitChar(s[i])

\* s.split(c) for a one-character separator: always at least one part
RECURSIVE SplitFrom(_, _, _, _)
SplitFrom(s, c, i, cur) ==
    IF i > Len(s) THEN <<cur>>
    ELSE IF s[i] = c THEN <<cur>> \o SplitFrom(s, c, i + 1, <<>>)
    ELSE SplitFrom(s, c, i + 1, Append(cur, s[i]))

Split(s, c) == SplitFrom(s, c, 1, <<>>)

\* sep.join(parts)
RECURSIVE Join(_, _)
Join(parts, sep) ==
    IF parts = <<>> THEN <<>>
    ELSE IF Len(parts) = 1 THEN parts[1]
    ELSE parts[1] \o sep \o Join(Tail(parts), sep)

\* s.replace(old, new) for a non-empty old: leftmost, non-overlapping
RECURSIVE ReplaceFrom(_, _, _, _)
ReplaceFrom(s, old, new, i) ==
    IF i > Len(s) THEN <<>>
    ELSE IF i + Len(old) - 1 <= Len(s) /\ SubSeq(s, i, i + Len(old) - 1) = old
    THEN new \o ReplaceFrom(s, old, new, i + Len(old))
    ELSE <<s[i]>> \o ReplaceFrom(s, old, new, i + 1)

Replace(s, old, new) == ReplaceFrom(s, old, new, 1)

\* int(s) for a string of decimal digits
RECURSIVE ParseInt(_)
ParseInt(s) ==
    IF s = <<>> THEN 0
    ELSE 10 * ParseInt(SubSeq(s, 1, Len(s) - 1)) + DigitVal(s[Len(s)])

\* str(n) for n >= 0
RECURSIVE IntToStr(_)
IntToStr(n) ==
    IF n < 10 THEN <<Digits[n + 1]>>
    ELSE Append(IntToStr(n \div 10), Digits[(n % 10) + 1])

\* 10 ** e
RECURSIVE Pow10(_)
Pow10(e) == IF e = 0 THEN 1 ELSE 10 * Pow10(e - 1)

(***************************************************************************)
(* The literals of the annotation protocol.                                 *)
(***************************************************************************)
\* "[*c], "
HeaderTag == <<"[", "*", "c", "]", ",", " ">>
\* "[t],"
TagT == <<"[", "t", "]", ",">>
\* "[tref],"
TagTref == <<"[", "t", "r", "e", "f", "]", ",">>
\* "[ta],"
TagTa == <<"[", "t", "a", "]", ",">>
\* "[sefa]"
TagSefa == <<"[", "s", "e", "f", "a", "]">>
\* "[xf]"
TagXf == <<"[", "x", "f", "]">>
\* "[xf],"
TagXfComma == <<"[", "x", "f", "]", ",">>
\* "f:"
FPrefix == <<"f", ":">>
\* "1e"
SciPrefix == <<"1", "e">>
\* The function names the skip-section pass looks for in every contract.
AddToPosition == <<"a", "d", "d", "T", "o", "P", "o", "s", "i", "t", "i", "o", "n">>
Withdraw == <<"w", "i", "t", "h", "d", "r", "a", "w">>
Deposit == <<"d", "e", "p", "o", "s", "i", "t">>

\* f"[*c], {contract_data['contractName']}"
HeaderLine(contractName) == HeaderTag \o contractName

\* f"[*c], {contract_data['contractName']}\n\n": the minimal valid document
MinimalDocument(contractName) == HeaderLine(contractName) \o <<"\n", "\n">>

(***************************************************************************)
(* _process_annotation_response, pass 1: header repair.                     *)
(***************************************************************************)
EnsureHeader(response, contractName) ==
    IF ~Contains(response, HeaderLine(contractName))
    THEN MinimalDocument(contractName) \o LStrip(response)
    ELSE response

(***************************************************************************)
(* Pass 2 (financial variant): the per-line repairs of the first loop.      *)
(***************************************************************************)
\* parts[-1] = f" f:{parts[-1].strip()}"; line = ','.join(parts)
PrefixLastPart(parts) ==
    Join([parts EXCEPT ![Len(parts)] = <<" ">> \o FPrefix \o Strip(parts[Len(parts)])],
         <<",">>)

\* a [t], line with no f: whose last part is a number gets the f: prefix
FixTSuffix(line) ==
    IF Contains(line, TagT) /\ ~Contains(line, FPrefix)
       /\ ~EndsWith(Strip(line), FPrefix)
    THEN LET parts == Split(line, ",")
         IN  IF IsDigit(Strip(parts[Len(parts)]))
             THEN PrefixLastPart(parts) ELSE line
    ELSE line

\* a [tref], line with no f:, at least three parts and a numeric last part
FixTrefSuffix(line) ==
    IF Contains(line, TagTref) /\ ~Contains(line, FPrefix)
    THEN LET parts == Split(line, ",")
         IN  IF Len(parts) >= 3 /\ IsDigit(Strip(parts[Len(parts)]))
             THEN PrefixLastPart(parts) ELSE line
    ELSE line

\* one part of a [sefa] line in the financial loop
FixSefaPartFinancial(part) ==
    IF Contains(part, <<"{">>) /\ ~Contains(part, <<"{", "{">>)
       /\ ~Contains(part, FPrefix)
    THEN LET doubled == Replace(Replace(part, <<"{">>, <<"{", "{">>),
                                <<"}">>, <<"}", "}">>)
         IN  IF ~Contains(doubled, FPrefix)
             THEN Replace(doubled, <<"}", "}">>,
                          <<",", " ", "f", ":", "-", "1", "}", "}">>)
             ELSE doubled
    ELSE part

FixSefaFinancial(line) ==
    IF Contains(line, TagSefa)
    THEN LET parts == Split(line, ",")
         IN  Join([i \in 1..Len(parts) |-> FixSefaPartFinancial(parts[i])], <<",">>)
    ELSE line

\* a line ending in a bare "f:" is completed with the undefined sentinel
FixTruncated(line) ==
    IF Contains(line, FPrefix) /\ EndsWith(Strip(line), FPrefix)
    THEN RStripChar(line, ":") \o <<":", "-", "1">>
    ELSE line

\* the body of the first financial loop, for one line
FixFinancialLine(line) ==
    FixTruncated(FixSefaFinancial(FixTrefSuffix(FixTSuffix(line))))

(***************************************************************************)
(* Pass 3, financial variant: skip functions get the [xf] prefix.           *)
(* funcs is contract_data["functions"], the names only.  i is the 1-based   *)
(* index of the line (Python's i + 1).                                      *)
(***************************************************************************)
NamesFunction(line, funcs) ==
    \/ Contains(line, AddToPosition)
    \/ Contains(line, Withdraw)
    \/ Contains(line, Deposit)
    \/ \E k \in 1..Len(funcs) : Contains(line, funcs[k])

RECURSIVE PrefixSkipFrom(_, _, _, _)
PrefixSkipFrom(lines, funcs, i, in_skip_section) ==
    IF i > Len(lines) THEN <<>>
    ELSE LET line == lines[i]
             candidate == /\ Strip(line) # <<>>
                          /\ ~StartsWith(line, <<"[">>)
                          /\ ~in_skip_section
                          /\ i > 1
                          /\ ~StartsWith(lines[i - 1], TagXf)
         IN  IF candidate /\ NamesFunction(line, funcs)
             THEN <<TagXfComma \o <<" ">> \o Strip(line)>>
                  \o PrefixSkipFrom(lines, funcs, i + 1, TRUE)
             ELSE <<line>>
                  \o PrefixSkipFrom(lines, funcs, i + 1,
                        IF StartsWith(line, <<"[">>) /\ ~StartsWith(line, TagXf)
                        THEN FALSE ELSE in_skip_section)

PrefixSkipFunctions(lines, funcs) == PrefixSkipFrom(lines, funcs, 1, FALSE)

(***************************************************************************)
(* Pass 3, token variant: [xf], lines lose their tag; the first of a run    *)
(* is preceded by a blank line.                                             *)
(***************************************************************************)
RECURSIVE StripSkipFrom(_, _, _, _)
StripSkipFrom(lines, i, skip_section, processed_lines) ==
    IF i > Len(lines) THEN processed_lines
    ELSE LET line == lines[i]
         IN  IF StartsWith(line, TagXfComma)
             THEN LET function_name == Strip(Split(line, ",")[2])
                  IN  StripSkipFrom(lines, i + 1, TRUE,
                         IF ~skip_section
                         THEN processed_lines \o <<<<>>, function_name>>
                         ELSE Append(processed_lines, function_name))
             ELSE StripSkipFrom(lines, i + 1,
                     IF /\ Strip(line) = <<>>
                        /\ processed_lines # <<>>
                        /\ Strip(processed_lines[Len(processed_lines)]) # <<>>
                     THEN FALSE ELSE skip_section,
                     Append(processed_lines, line))

StripSkipPrefix(lines) == StripSkipFrom(lines, 1, FALSE, <<>>)

(***************************************************************************)
(* Pass 4 (token variant): 1e<N> becomes its decimal expansion.             *)
(***************************************************************************)
\* re.search(r'1e(\d+)', part): the start of the leftmost match, 0 when none
RECURSIVE SciSearchFrom(_, _)
SciSearchFrom(part, i) ==
    IF i + 2 > Len(part) THEN 0
    ELSE IF part[i] = "1" /\ part[i + 1] = "e" /\ IsDigitChar(part[i + 2]) THEN i
    ELSE SciSearchFrom(part, i + 1)

\* the greedy \d+ that starts at index i
RECURSIVE DigitRun(_, _)
DigitRun(part, i) ==
    IF i <= Len(part) /\ IsDigitChar(part[i])
    THEN <<part[i]>> \o DigitRun(part, i + 1) ELSE <<>>

\* one comma-separated part of a tagged line
FixScientificPart(part) ==
    IF Contains(part, SciPrefix)
    THEN LET at == SciSearchFrom(part, 1)
         IN  IF at # 0
             THEN LET exp == ParseInt(DigitRun(part, at + 2))
                  IN  Replace(part, SciPrefix \o IntToStr(exp), IntToStr(Pow10(exp)))
             ELSE part
    ELSE part

\* the rewrite of the literals on every line that holds one, tagged or not
FixScientific_AnyLine(line) ==
    IF Contains(line, SciPrefix)
    THEN LET parts == Split(line, ",")
         IN  Join([j \in 1..Len(parts) |-> FixScientificPart(parts[j])], <<",">>)
    ELSE line

FixScientific(line) ==
    IF /\ Contains(line, SciPrefix)
       /\ (Contains(line, TagT) \/ Contains(line, TagTa) \/ Contains(line, TagTref))
    THEN LET parts == Split(line, ",")
         IN  Join([j \in 1..Len(parts) |-> FixScientificPart(parts[j])], <<",">>)
    ELSE line

(***************************************************************************)
(* Pass 5 (both variants): single braces of [sefa] lines are doubled.       *)
(***************************************************************************)
EscapeBracesPart(part) ==
    IF Contains(part, <<"{">>) /\ ~Contains(part, <<"{", "{">>)
    THEN Replace(Replace(part, <<"{">>, <<"{", "{">>), <<"}">>, <<"}", "}">>)
    ELSE part

EscapeBraces(line) ==
    IF Contains(line, TagSefa)
    THEN LET parts == Split(line, ",")
         IN  Join([i \in 1..Len(parts) |-> EscapeBracesPart(parts[i])], <<",">>)
    ELSE line

(***************************************************************************)
(* _process_annotation_response.  No operation of its body raises on a str, *)
(* so the except branch is never taken.                                     *)
(***************************************************************************)
\* the loop over the lines that repairs the financial annotations
FixFinancialLines(response) ==
    LET lines == Split(response, "\n")
    IN  Join([i \in 1..Len(lines) |-> FixFinancialLine(lines[i])], <<"\n">>)

\* the loop over the lines that expands the scaling factors
FixScientificLines(response) ==
    LET lines == Split(response, "\n")
    IN  Join([i \in 1..Len(lines) |-> FixScientific(lines[i])], <<"\n">>)

\* the loop over the lines that escapes the braces
EscapeBracesLines(response) ==
    LET lines == Split(response, "\n")
    IN  Join([i \in 1..Len(lines) |-> EscapeBraces(lines[i])], <<"\n">>)

\* the financial branch followed by the rewrite of the literals
ProcessFinancial_Scientific(response, funcs) ==
    LET fixed == FixFinancialLines(response)
    IN  FixScientificLines(
            Join(PrefixSkipFunctions(Split(fixed, "\n"), funcs), <<"\n">>))

ProcessFinancial(response, funcs) ==
    LET fixed == FixFinancialLines(response)
    IN  Join(PrefixSkipFunctions(Split(fixed, "\n"), funcs), <<"\n">>)

ProcessToken(response) ==
    LET stripped == Join(StripSkipPrefix(Split(response, "\n")), <<"\n">>)
    IN  FixScientificLines(stripped)

process_annotation_response(response, contractName, funcs, is_financial) ==
    LET withHeader == EnsureHeader(response, contractName)
        body == IF is_financial THEN ProcessFinancial(withHeader, funcs)
                ELSE ProcessToken(withHeader)
    IN  EscapeBracesLines(body)

(***************************************************************************)
(* make_api_call and _call_llm.  None is Python's None.                     *)
(***************************************************************************)
None == <<"None">>

\* _call_llm with a client: the content of the reply's message, stripped, or
\* None when the request raised or the reply held no choice
call_llm(answered, message_content) ==
    IF answered THEN Strip(message_content) ELSE None

\* make_api_call that answers a missing response with the empty text
make_api_call_Empty(response, contractName, funcs, is_financial) ==
    IF response # None /\ response # <<>>
    THEN process_annotation_response(response, contractName, funcs, is_financial)
    ELSE <<>>

\* make_api_call: "if response:" is false for None and for the empty str
make_api_call(response, contractName, funcs, is_financial) ==
    IF response # None /\ response # <<>>
    THEN process_annotation_response(response, contractName, funcs, is_financial)
    ELSE MinimalDocument(contractName)

(***************************************************************************)
(* The inputs of the normaliser: one contract descriptor and the texts the  *)
(* collaborator may send, every sequence of at most MaxLines lines of       *)
(* CandidateLines.                                                          *)
(***************************************************************************)
MaxLines == 2

\* the contract name found by generate_type_files
ContractName == <<"V">>

\* contract_data["functions"], the names
FunctionNames == << <<"d", "e", "p">>, <<"w", "d">> >>

CandidateLines == <<
    \* ""
    <<>>,
    \* "[*c], V"
    <<"[", "*", "c", "]", ",", " ", "V">>,
    \* "[*c], VX"
    <<"[", "*", "c", "]", ",", " ", "V", "X">>,
    \* "[t], g, x, 10"
    <<"[", "t", "]", ",", " ", "g", ",", " ", "x", ",", " ", "1", "0">>,
    \* "[t], g, x, -1"
    <<"[", "t", "]", ",", " ", "g", ",", " ", "x", ",", " ", "-", "1">>,
    \* "[tref], b, 7"
    <<"[", "t", "r", "e", "f", "]", ",", " ", "b", ",", " ", "7">>,
    \* "[tref], 7"
    <<"[", "t", "r", "e", "f", "]", ",", " ", "7">>,
    \* "[t], g, x, f:"
    <<"[", "t", "]", ",", " ", "g", ",", " ", "x", ",", " ", "f", ":">>,
    \* "[t], g, x, f: "
    <<"[", "t", "]", ",", " ", "g", ",", " ", "x", ",", " ", "f", ":", " ">>,
    \* "[t], g, 1e6, u"
    <<"[", "t", "]", ",", " ", "g", ",", " ", "1", "e", "6", ",", " ", "u">>,
    \* "[t], g, 1e2 1e6"
    <<"[", "t", "]", ",", " ", "g", ",", " ", "1", "e", "2", " ", "1", "e", "6">>,
    \* "[ta], s, t, 1e6"
    <<"[", "t", "a", "]", ",", " ", "s", ",", " ", "t", ",", " ", "1", "e", "6">>,
    \* "n 1e6"
    <<"n", " ", "1", "e", "6">>,
    \* "[sefa], P, m, {c, 1}"
    <<"[", "s", "e", "f", "a", "]", ",", " ", "P", ",", " ", "m", ",", " ", "{", "c", ",", " ", "1", "}">>,
    \* "[sefa], P, m, {{c}}"
    <<"[", "s", "e", "f", "a", "]", ",", " ", "P", ",", " ", "m", ",", " ", "{", "{", "c", "}", "}">>,
    \* "[xf], dep"
    <<"[", "x", "f", "]", ",", " ", "d", "e", "p">>,
    \* "dep"
    <<"d", "e", "p">>,
    \* "wd"
    <<"w", "d">>,
    \* "misc"
    <<"m", "i", "s", "c">>
>>

RECURSIVE LineSeqs(_)
LineSeqs(n) ==
    IF n = 0 THEN {<<>>}
    ELSE LET shorter == LineSeqs(n - 1)
         IN  shorter \cup {Append(ls, CandidateLines[k]) :
                              ls \in {x \in shorter : Len(x) = n - 1},
                              k \in 1..Len(CandidateLines)}

Contents == {Join(ls, <<"\n">>) : ls \in LineSeqs(MaxLines)}

Variants == {"token", "financial"}

(***************************************************************************)
(* Python's re, as far as the resolver's patterns use it.  A pattern is a   *)
(* sequence of nodes:                                                       *)
(*   Lit(s)            the characters of s                                  *)
(*   Rep(c, min, max)  min..max characters of class c, greedy (max 0: no    *)
(*                     upper limit)                                         *)
(*   Opt(r)            (?:r)?                                               *)
(*   Alt(rs)           (?:r1|r2|...), tried in order                        *)
(*   Open(g), Close(g) the parentheses of capture group g                   *)
(* Match is the backtracking matcher: it returns the first way, in the      *)
(* engine's order of preference, to match the nodes at index i.             *)
(***************************************************************************)
UpperLetters == {"A", "B", "C", "D", "E", "F", "G", "H", "I", "J", "K", "L", "M",
                 "N", "O", "P", "Q", "R", "S", "T", "U", "V", "W", "X", "Y", "Z"}

LowerLetters == {"a", "b", "c", "d", "e", "f", "g", "h", "i", "j", "k", "l", "m",
                 "n", "o", "p", "q", "r", "s", "t", "u", "v", "w", "x", "y", "z"}

DigitChars == {"0", "1", "2", "3", "4", "5", "6", "7", "8", "9"}

WordChars == UpperLetters \cup LowerLetters \cup DigitChars \cup {"_"}

HexChars == DigitChars \cup {"a", "b", "c", "d", "e", "f", "A", "B", "C", "D", "E", "F"}

UpperDigitChars == UpperLetters \cup DigitChars \cup {"_"}

\* the character classes of the patterns
InClass(ch, c) ==
    CASE c = "w" -> ch \in WordChars
      [] c = "s" -> ch \in Whitespace
      [] c = "hex" -> ch \in HexChars
      [] c = "upper" -> ch \in UpperLetters
      [] c = "upper_digit" -> ch \in UpperDigitChars
      [] c = "not_brace" -> ch # "}"
      [] c = "d" -> ch \in DigitChars
      [] c = "dot" -> ch # "\n"
      [] c = "any" -> TRUE
      [] c = "quote" -> ch \in {"\"", "'"}

Lit(s) == [k |-> "lit", s |-> s]
Rep(c, min, max) == [k |-> "rep", c |-> c, min |-> min, max |-> max]
Opt(r) == [k |-> "opt", r |-> r]
Alt(rs) == [k |-> "alt", rs |-> rs]
Lazy(c, min) == [k |-> "lazy", c |-> c, min |-> min]
Open(g) == [k |-> "open", g |-> g]
Close(g) == [k |-> "close", g |-> g]

\* \s*  \s+  (\w+) as group g
Ws0 == Rep("s", 0, 0)
Ws1 == Rep("s", 1, 0)
WordGroup(g) == <<Open(g), Rep("w", 1, 0), Close(g)>>

NoMatch == [ok |-> FALSE, end |-> 0, caps |-> <<>>]

\* the number of consecutive characters of class c from index i, at most max
RECURSIVE RunLength(_, _, _, _)
RunLength(s, i, c, max) ==
    IF i > Len(s) \/ max = 0 THEN 0
    ELSE IF InClass(s[i], c) THEN 1 + RunLength(s, i + 1, c, max - 1)
    ELSE 0

\* the number of consecutive characters of class c from index i
Extent(s, i, c) ==
    LET stops == {j \in i..Len(s) : ~InClass(s[j], c)}
    IN  IF stops = {} THEN Len(s) + 1 - i
        ELSE (CHOOSE j \in stops : \A k \in stops : j <= k) - i

\* what follows a repetition can begin at index i (past the end: only
\* what matches the empty text)
CanFollowAt(rest, s, i) ==
    IF rest = <<>> THEN TRUE
    ELSE LET n == Head(rest)
         IN  CASE n.k = "lit" -> i <= Len(s) /\ s[i] = n.s[1]
               [] n.k = "rep" -> n.min = 0 \/ (i <= Len(s) /\ InClass(s[i], n.c))
               [] OTHER -> TRUE

RECURSIVE Match(_, _, _, _)
RECURSIVE MatchRep(_, _, _, _, _, _)
RECURSIVE MatchAlt(_, _, _, _, _, _)

Match(nodes, s, i, caps) ==
    IF nodes = <<>> THEN [ok |-> TRUE, end |-> i, caps |-> caps]
    ELSE LET n == Head(nodes)
             rest == Tail(nodes)
         IN  CASE n.k = "lit" ->
                    IF /\ i + Len(n.s) - 1 <= Len(s)
                       /\ SubSeq(s, i, i + Len(n.s) - 1) = n.s
                    THEN Match(rest, s, i + Len(n.s), caps)
                    ELSE NoMatch
               [] n.k = "rep" ->
                    LET run == RunLength(s, i, n.c,
                                         IF n.max = 0 THEN Len(s) ELSE n.max)
                    IN  MatchRep(rest, s, i, run, n.min, caps)
               [] n.k = "lazy" ->
                    \* a lazy repetition: the shortest run first
                    LET run == Extent(s, i, n.c)
                        counts == {c \in n.min..run :
                                      /\ CanFollowAt(rest, s, i + c)
                                      /\ Match(rest, s, i + c, caps).ok}
                    IN  IF counts = {} THEN NoMatch
                        ELSE Match(rest, s,
                                   i + (CHOOSE c \in counts : \A k \in counts : c <= k),
                                   caps)
               [] n.k = "opt" ->
                    LET with == Match(n.r \o rest, s, i, caps)
                    IN  IF with.ok THEN with ELSE Match(rest, s, i, caps)
               [] n.k = "alt" -> MatchAlt(n.rs, 1, rest, s, i, caps)
               [] n.k = "open" ->
                    Match(rest, s, i, [caps EXCEPT ![n.g] = <<i, i>>])
               [] n.k = "close" ->
                    Match(rest, s, i, [caps EXCEPT ![n.g] = <<caps[n.g][1], i>>])

\* a greedy repetition: the longest run first, then shorter ones
MatchRep(rest, s, i, count, min, caps) ==
    IF count < min THEN NoMatch
    ELSE LET r == Match(rest, s, i + count, caps)
         IN  IF r.ok THEN r ELSE MatchRep(rest, s, i, count - 1, min, caps)

MatchAlt(rs, j, rest, s, i, caps) ==
    IF j > Len(rs) THEN NoMatch
    ELSE LET r == Match(rs[j] \o rest, s, i, caps)
         IN  IF r.ok THEN r ELSE MatchAlt(rs, j + 1, rest, s, i, caps)

\* the text of the groups of a match (the patterns here always set every group)
Groups(s, r) == [g \in 1..Len(r.caps) |-> SubSeq(s, r.caps[g][1], r.caps[g][2] - 1)]

\* the first character a match of nodes can begin with is at index i
CanBeginAt(nodes, s, i) ==
    LET n == IF nodes[1].k = "open" THEN nodes[2] ELSE nodes[1]
    IN  CASE n.k = "lit" -> s[i] = n.s[1]
          [] n.k = "rep" -> n.min = 0 \/ InClass(s[i], n.c)
          [] n.k = "alt" ->
                \E j \in 1..Len(n.rs) :
                    n.rs[j][1].k = "lit" => s[i] = n.rs[j][1].s[1]
          [] OTHER -> TRUE

\* index i continues a run that an unlimited repetition at the head of nodes
\* would have matched from i - 1 as well: a match at i then has a match at
\* i - 1, and is not the leftmost
ContinuesRun(nodes, s, i) ==
    LET n == IF nodes[1].k = "open" THEN nodes[2] ELSE nodes[1]
    IN  /\ n.k = "rep" /\ n.max = 0
        /\ i > 1 /\ InClass(s[i - 1], n.c) /\ InClass(s[i], n.c)

MatchAt(nodes, ngroups, s, i) == Match(nodes, s, i, [g \in 1..ngroups |-> <<0, 0>>])

\* the indices where a leftmost match can start, whatever the scan position
MatchStarts(nodes, ngroups, s) ==
    {i \in 1..Len(s) : /\ CanBeginAt(nodes, s, i)
                       /\ ~ContinuesRun(nodes, s, i)
                       /\ MatchAt(nodes, ngroups, s, i).ok}

\* re.finditer(pattern, s) from index i: leftmost matches, not overlapping;
\* each match is the sequence of its groups' texts.  The scan position
\* itself is tried even inside a run.
RECURSIVE FindIterFrom(_, _, _, _, _)
FindIterFrom(nodes, ngroups, s, starts, i) ==
    LET here == IF /\ i <= Len(s)
                   /\ ContinuesRun(nodes, s, i)
                   /\ CanBeginAt(nodes, s, i)
                   /\ MatchAt(nodes, ngroups, s, i).ok
                THEN {i} ELSE {}
        later == {j \in starts : j >= i} \cup here
    IN  IF later = {} THEN <<>>
        ELSE LET at == CHOOSE j \in later : \A k \in later : j <= k
                 r == MatchAt(nodes, ngroups, s, at)
             IN  <<Groups(s, r)>>
                 \o FindIterFrom(nodes, ngroups, s, starts,
                                 IF r.end > at THEN r.end ELSE at + 1)

FindIter(nodes, ngroups, s) ==
    FindIterFrom(nodes, ngroups, s, MatchStarts(nodes, ngroups, s), 1)


(***************************************************************************)
(* The patterns of _generate_type_annotations that the resolver reads.      *)
(***************************************************************************)
\* (?:\s+(?:public|private|internal))?
VisibilityOpt ==
    Opt(<<Ws1, Alt(<< <<Lit(<<"p", "u", "b", "l", "i", "c">>)>>, <<Lit(<<"p", "r", "i", "v", "a", "t", "e">>)>>, <<Lit(<<"i", "n", "t", "e", "r", "n", "a", "l">>)>> >>)>>)

\* (?:new\s+)?
NewOpt == Opt(<<Lit(<<"n", "e", "w">>), Ws1>>)

\* (?:address\()?(0x[a-fA-F0-9]+|[a-zA-Z0-9_]+) with the alternation as group g
CastArgument(g) ==
    <<Opt(<<Lit(<<"a", "d", "d", "r", "e", "s", "s", "(">>)>>),
      Open(g),
      Alt(<< <<Lit(<<"0", "x">>), Rep("hex", 1, 0)>>, <<Rep("w", 1, 0)>> >>),
      Close(g)>>

\* (\w+)(?:\s+(?:public|private|internal))?\s+(\w+)\s*=\s*(?:new\s+)?(\w+)\s*\(
DirectInstantiationPattern ==
    WordGroup(1) \o <<VisibilityOpt, Ws1>> \o WordGroup(2)
    \o <<Ws0, Lit(<<"=">>), Ws0, NewOpt>> \o WordGroup(3) \o <<Ws0, Lit(<<"(">>)>>

\* (\w+)\s*=\s*(?:new\s+)?(\w+)\s*\(
VarAssignmentPattern ==
    WordGroup(1) \o <<Ws0, Lit(<<"=">>), Ws0, NewOpt>> \o WordGroup(2)
    \o <<Ws0, Lit(<<"(">>)>>

\* (\w+)\s*\(\s*(?:address\()?(0x[a-fA-F0-9]+|[a-zA-Z0-9_]+)\s*\)
InterfaceCallPattern ==
    WordGroup(1) \o <<Ws0, Lit(<<"(">>), Ws0>> \o CastArgument(2) \o <<Ws0, Lit(<<")">>)>>

\* address(?:\s+(?:public|private|internal))?\s+([A-Z][A-Z0-9_]+)\s*;
AddressVarPattern ==
    <<Lit(<<"a", "d", "d", "r", "e", "s", "s">>), VisibilityOpt, Ws1,
      Open(1), Rep("upper", 1, 1), Rep("upper_digit", 1, 0), Close(1),
      Ws0, Lit(<<";">>)>>

\* interface\s+(\w+)
InterfacePattern == <<Lit(<<"i", "n", "t", "e", "r", "f", "a", "c", "e">>), Ws1>> \o WordGroup(1)

\* contract\s+(\w+)
ContractPattern == <<Lit(<<"c", "o", "n", "t", "r", "a", "c", "t">>), Ws1>> \o WordGroup(1)

\* (\w+)\.(\w+)\s*\(
DirectCallPattern ==
    WordGroup(1) \o <<Lit(<<".">>)>> \o WordGroup(2) \o <<Ws0, Lit(<<"(">>)>>

\* (\w+)\s*\(\s*(?:address\()?(0x[a-fA-F0-9]+|[a-zA-Z0-9_]+)\s*\)\s*\.\s*(\w+)\s*\(
InterfaceMethodCallPattern ==
    WordGroup(1) \o <<Ws0, Lit(<<"(">>), Ws0>> \o CastArgument(2)
    \o <<Ws0, Lit(<<")">>), Ws0, Lit(<<".">>), Ws0>> \o WordGroup(3) \o <<Ws0, Lit(<<"(">>)>>

\* (\w+)\.(\w+)\s*\(\s*(\w+)
LibraryCallPattern ==
    WordGroup(1) \o <<Lit(<<".">>)>> \o WordGroup(2) \o <<Ws0, Lit(<<"(">>), Ws0>>
    \o WordGroup(3)

\* (\w+)\.call\s*(?:\{\s*value\s*:\s*[^}]+\s*\})?\s*\(\s*abi\.encodeWithSignature\s*\(\s*["'](\w+)\(
LowLevelCallPattern ==
    WordGroup(1)
    \o <<Lit(<<".", "c", "a", "l", "l">>), Ws0,
         Opt(<<Lit(<<"{">>), Ws0, Lit(<<"v", "a", "l", "u", "e">>), Ws0, Lit(<<":">>), Ws0,
               Rep("not_brace", 1, 0), Ws0, Lit(<<"}">>)>>),
         Ws0, Lit(<<"(">>), Ws0, Lit(<<"a", "b", "i", ".", "e", "n", "c", "o", "d", "e", "W", "i", "t", "h", "S", "i", "g", "n", "a", "t", "u", "r", "e">>), Ws0, Lit(<<"(">>), Ws0,
         Rep("quote", 1, 1)>>
    \o WordGroup(2) \o <<Lit(<<"(">>)>>

\* common_interface_methods: the method names, in the order of the dict,
\* and the interfaces each is taken to belong to
CommonInterfaceMethodNames ==
    <<<<"t", "r", "a", "n", "s", "f", "e", "r">>, <<"t", "r", "a", "n", "s", "f", "e", "r", "F", "r", "o", "m">>, <<"a", "p", "p", "r", "o", "v", "e">>, <<"a", "l", "l", "o", "w", "a", "n", "c", "e">>,
      <<"b", "a", "l", "a", "n", "c", "e", "O", "f">>, <<"m", "i", "n", "t">>, <<"b", "u", "r", "n">>, <<"t", "o", "t", "a", "l", "S", "u", "p", "p", "l", "y">>,
      <<"n", "a", "m", "e">>, <<"s", "y", "m", "b", "o", "l">>, <<"d", "e", "c", "i", "m", "a", "l", "s">>, <<"o", "w", "n", "e", "r", "O", "f">>,
      <<"s", "a", "f", "e", "T", "r", "a", "n", "s", "f", "e", "r", "F", "r", "o", "m">>, <<"g", "e", "t", "A", "p", "p", "r", "o", "v", "e", "d">>, <<"i", "s", "A", "p", "p", "r", "o", "v", "e", "d", "F", "o", "r", "A", "l", "l">>,
      <<"s", "e", "t", "A", "p", "p", "r", "o", "v", "a", "l", "F", "o", "r", "A", "l", "l">>>>

IERC20 == <<"I", "E", "R", "C", "2", "0">>
ERC20 == <<"E", "R", "C", "2", "0">>
IERC721 == <<"I", "E", "R", "C", "7", "2", "1">>
ERC721 == <<"E", "R", "C", "7", "2", "1">>

common_interface_methods(method) ==
    IF method \in {<<"t", "r", "a", "n", "s", "f", "e", "r">>, <<"t", "r", "a", "n", "s", "f", "e", "r", "F", "r", "o", "m">>, <<"a", "p", "p", "r", "o", "v", "e">>, <<"a", "l", "l", "o", "w", "a", "n", "c", "e">>,
                   <<"t", "o", "t", "a", "l", "S", "u", "p", "p", "l", "y">>, <<"d", "e", "c", "i", "m", "a", "l", "s">>}
    THEN <<IERC20, ERC20>>
    ELSE IF method \in {<<"b", "a", "l", "a", "n", "c", "e", "O", "f">>, <<"m", "i", "n", "t">>, <<"b", "u", "r", "n">>, <<"n", "a", "m", "e">>, <<"s", "y", "m", "b", "o", "l">>}
    THEN <<IERC20, ERC20, IERC721, ERC721>>
    ELSE <<IERC721, ERC721>>

\* function\s+(transfer|transferFrom|...)\s*\(
InterfaceMethodMarkerPattern ==
    <<Lit(<<"f", "u", "n", "c", "t", "i", "o", "n">>), Ws1, Open(1),
      Alt([j \in 1..Len(CommonInterfaceMethodNames) |->
              <<Lit(CommonInterfaceMethodNames[j])>>]),
      Close(1), Ws0, Lit(<<"(">>)>>

\* interface\s+{iface}\s*\{([^}]*)\}
InterfaceBodyPattern(iface) ==
    <<Lit(<<"i", "n", "t", "e", "r", "f", "a", "c", "e">>), Ws1, Lit(iface), Ws0, Lit(<<"{">>),
      Open(1), Rep("not_brace", 0, 0), Close(1), Lit(<<"}">>)>>

\* function\s+(\w+)\s*\(
FunctionNamePattern ==
    <<Lit(<<"f", "u", "n", "c", "t", "i", "o", "n">>), Ws1>> \o WordGroup(1) \o <<Ws0, Lit(<<"(">>)>>

(***************************************************************************)
(* The patterns of the contract's elements and of the function details.     *)
(***************************************************************************)
\* (uint|int|address)(?:\d*)?  with the type as group g
ElementType(g) ==
    <<Open(g), Alt(<< <<Lit(<<"u", "i", "n", "t">>)>>, <<Lit(<<"i", "n", "t">>)>>, <<Lit(<<"a", "d", "d", "r", "e", "s", "s">>)>> >>), Close(g),
      Opt(<<Rep("d", 0, 0)>>)>>

\* (uint|int|address)(?:\d*)?(?:\s+(?:public|private|internal))?\s+(\w+)\s*;
VariablePattern ==
    ElementType(1) \o <<VisibilityOpt, Ws1>> \o WordGroup(2) \o <<Ws0, Lit(<<";">>)>>

\* function\s+(\w+)\s*\((.*?)\)
FunctionPattern ==
    <<Lit(<<"f", "u", "n", "c", "t", "i", "o", "n">>), Ws1>> \o WordGroup(1)
    \o <<Ws0, Lit(<<"(">>), Open(2), Lazy("dot", 0), Close(2), Lit(<<")">>)>>

\* (uint|int|address)(?:\d*)?(?:\s+(?:public|private|internal))?\s*\[\s*\]\s+(\w+)\s*;
ArrayPattern ==
    ElementType(1) \o <<VisibilityOpt, Ws0, Lit(<<"[">>), Ws0, Lit(<<"]">>), Ws1>>
    \o WordGroup(2) \o <<Ws0, Lit(<<";">>)>>

\* struct\s+(\w+)\s*\{([^}]*)\}
StructPattern ==
    <<Lit(<<"s", "t", "r", "u", "c", "t">>), Ws1>> \o WordGroup(1)
    \o <<Ws0, Lit(<<"{">>), Open(2), Rep("not_brace", 0, 0), Close(2), Lit(<<"}">>)>>

\* function\s+{func_name}\s*\((.*?)\)(?:.*?)(?:{|;)  with re.DOTALL
FunctionDefinitionPattern(func_name) ==
    <<Lit(<<"f", "u", "n", "c", "t", "i", "o", "n">>), Ws1, Lit(func_name), Ws0, Lit(<<"(">>), Open(1), Lazy("any", 0),
      Close(1), Lit(<<")">>), Lazy("any", 0), Alt(<< <<Lit(<<"{">>)>>, <<Lit(<<";">>)>> >>)>>

\* (?:\s+(?:memory|storage|calldata))?
LocationOpt ==
    Opt(<<Ws1, Alt(<< <<Lit(<<"m", "e", "m", "o", "r", "y">>)>>, <<Lit(<<"s", "t", "o", "r", "a", "g", "e">>)>>, <<Lit(<<"c", "a", "l", "l", "d", "a", "t", "a">>)>> >>)>>)

\* \w+(?:\[\])?
TypeName == <<Rep("w", 1, 0), Opt(<<Lit(<<"[", "]">>)>>)>>

\* (\w+(?:\[\])?)(?:\s+(?:memory|storage|calldata))?\s+(\w+)
ParameterPattern ==
    <<Open(1)>> \o TypeName \o <<Close(1), LocationOpt, Ws1>> \o WordGroup(2)

\* function\s+{func_name}\s*\(.*?\).*?returns\s*\(\s*
\*   ((?:\w+(?:\[\])?)(?:\s+(?:memory|storage|calldata))?)\s+(\w+)\s*\)
\* with re.DOTALL
ReturnPattern(func_name) ==
    <<Lit(<<"f", "u", "n", "c", "t", "i", "o", "n">>), Ws1, Lit(func_name), Ws0, Lit(<<"(">>), Lazy("any", 0), Lit(<<")">>),
      Lazy("any", 0), Lit(<<"r", "e", "t", "u", "r", "n", "s">>), Ws0, Lit(<<"(">>), Ws0, Open(1)>>
    \o TypeName \o <<LocationOpt, Close(1), Ws1>> \o WordGroup(2) \o <<Ws0, Lit(<<")">>)>>

\* re.search(pattern, s): the first match's groups, <<>> when there is none
Search(nodes, ngroups, s) ==
    LET starts == MatchStarts(nodes, ngroups, s)
    IN  IF starts = {} THEN <<>>
        ELSE LET at == CHOOSE j \in starts : \A k \in starts : j <= k
             IN  <<Groups(s, MatchAt(nodes, ngroups, s, at))>>


(***************************************************************************)
(* Names, dicts and sets as the resolver uses them.                         *)
(***************************************************************************)
LowerSeq == <<"a", "b", "c", "d", "e", "f", "g", "h", "i", "j", "k", "l", "m",
              "n", "o", "p", "q", "r", "s", "t", "u", "v", "w", "x", "y", "z">>

UpperSeq == <<"A", "B", "C", "D", "E", "F", "G", "H", "I", "J", "K", "L", "M",
              "N", "O", "P", "Q", "R", "S", "T", "U", "V", "W", "X", "Y", "Z">>

\* s.upper()
Upper(s) ==
    [i \in 1..Len(s) |->
        IF s[i] \in LowerLetters
        THEN UpperSeq[CHOOSE j \in 1..26 : LowerSeq[j] = s[i]]
        ELSE s[i]]

\* s.isupper(): some cased character, and no lower-case one
IsUpper(s) ==
    /\ \E i \in 1..Len(s) : s[i] \in UpperLetters
    /\ \A i \in 1..Len(s) : s[i] \notin LowerLetters

\* name.startswith("I") and len(name) > 1
HasIPrefix(name) == StartsWith(name, <<"I">>) /\ Len(name) > 1

\* name.startswith("I") and len(name) > 1 and name[1].isupper()
IsInterfaceName(name) == HasIPrefix(name) /\ name[2] \in UpperLetters

\* name[1:]
WithoutFirst(name) == SubSeq(name, 2, Len(name))

\* a dict is a function on its keys; d[key] = value
EmptyDict == [key \in {} |-> <<>>]

Put(d, key, value) ==
    [x \in DOMAIN d \cup {key} |-> IF x = key THEN value ELSE d[x]]

Range(seq) == {seq[i] : i \in 1..Len(seq)}

\* the two alias dicts, and the assignment made at every binding site:
\* interface_to_var[iface] = var_name; var_to_interface[var_name] = iface
Bind(b, iface, var_name) ==
    [interface_to_var |-> Put(b.interface_to_var, iface, var_name),
     var_to_interface |-> Put(b.var_to_interface, var_name, iface)]

(***************************************************************************)
(* The six binding heuristics.  Each is the whole loop over its matches.    *)
(***************************************************************************)
\* one match of direct_instantiations: (type_name, var_name, inst_type)
DirectInstantiationStep(b, inst) ==
    LET type_name == inst[1]
        var_name == inst[2]
        inst_type == inst[3]
        b1 == IF IsInterfaceName(type_name) THEN Bind(b, type_name, var_name) ELSE b
    IN  IF IsInterfaceName(inst_type) /\ var_name \notin DOMAIN b1.var_to_interface
        THEN Bind(b1, inst_type, var_name)
        ELSE b1

\* one match of var_assignments: (var_name, inst_type)
VarAssignmentStep(b, assign) ==
    LET var_name == assign[1]
        inst_type == assign[2]
    IN  IF IsInterfaceName(inst_type) /\ var_name \notin DOMAIN b.var_to_interface
        THEN Bind(b, inst_type, var_name)
        ELSE b

\* one match of interface_calls: (iface_name, argument)
InterfaceCallStep(b, call) ==
    LET iface_name == call[1]
        var_name == Upper(WithoutFirst(iface_name))
    IN  IF /\ IsInterfaceName(iface_name)
           /\ var_name \notin DOMAIN b.var_to_interface
           /\ iface_name \notin DOMAIN b.interface_to_var
        THEN Bind(b, iface_name, var_name)
        ELSE b

RECURSIVE ProcessDirectInstantiationsFrom(_, _, _)
ProcessDirectInstantiationsFrom(b, direct_instantiations, i) ==
    IF i > Len(direct_instantiations) THEN b
    ELSE ProcessDirectInstantiationsFrom(
             DirectInstantiationStep(b, direct_instantiations[i]),
             direct_instantiations, i + 1)

ProcessDirectInstantiations(b, direct_instantiations) ==
    ProcessDirectInstantiationsFrom(b, direct_instantiations, 1)

RECURSIVE ProcessVarAssignmentsFrom(_, _, _)
ProcessVarAssignmentsFrom(b, var_assignments, i) ==
    IF i > Len(var_assignments) THEN b
    ELSE ProcessVarAssignmentsFrom(VarAssignmentStep(b, var_assignments[i]),
                                   var_assignments, i + 1)

ProcessVarAssignments(b, var_assignments) ==
    ProcessVarAssignmentsFrom(b, var_assignments, 1)

RECURSIVE ProcessInterfaceCallsFrom(_, _, _)
ProcessInterfaceCallsFrom(b, interface_calls, i) ==
    IF i > Len(interface_calls) THEN b
    ELSE ProcessInterfaceCallsFrom(InterfaceCallStep(b, interface_calls[i]),
                                   interface_calls, i + 1)

ProcessInterfaceCalls(b, interface_calls) ==
    ProcessInterfaceCallsFrom(b, interface_calls, 1)

\* the first interface whose name without the I, upper-cased, is var_name;
\* 0 when there is none ("for iface in ...: if ...: ...; break")
RECURSIVE FirstMatchingInterface(_, _, _)
FirstMatchingInterface(interfaces, var_name, i) ==
    IF i > Len(interfaces) THEN 0
    ELSE IF /\ StartsWith(interfaces[i], <<"I">>)
            /\ Upper(WithoutFirst(interfaces[i])) = var_name
         THEN i
         ELSE FirstMatchingInterface(interfaces, var_name, i + 1)

RECURSIVE ProcessAddressVarsFrom(_, _, _, _)
ProcessAddressVarsFrom(b, address_vars, interfaces, i) ==
    IF i > Len(address_vars) THEN b
    ELSE LET var_name == address_vars[i]
             at == IF IsUpper(var_name)
                   THEN FirstMatchingInterface(interfaces, var_name, 1) ELSE 0
         IN  ProcessAddressVarsFrom(
                 IF at # 0 THEN Bind(b, interfaces[at], var_name) ELSE b,
                 address_vars, interfaces, i + 1)

ProcessAddressVars(b, address_vars, interfaces) ==
    ProcessAddressVarsFrom(b, address_vars, interfaces, 1)

\* an interface IFoo and the contracts: every contract named Foo binds FOO
RECURSIVE MatchContractsFrom(_, _, _, _)
MatchContractsFrom(b, iface, contracts, j) ==
    IF j > Len(contracts) THEN b
    ELSE LET var_name == Upper(WithoutFirst(iface))
         IN  MatchContractsFrom(
                 IF /\ contracts[j] = WithoutFirst(iface)
                    /\ var_name \notin DOMAIN b.var_to_interface
                 THEN Bind(b, iface, var_name) ELSE b,
                 iface, contracts, j + 1)

RECURSIVE ProcessImplementationsFrom(_, _, _, _)
ProcessImplementationsFrom(b, interfaces, contracts, i) ==
    IF i > Len(interfaces) THEN b
    ELSE ProcessImplementationsFrom(
             IF HasIPrefix(interfaces[i])
             THEN MatchContractsFrom(b, interfaces[i], contracts, 1) ELSE b,
             interfaces, contracts, i + 1)

ProcessImplementations(b, interfaces, contracts) ==
    ProcessImplementationsFrom(b, interfaces, contracts, 1)

\* DefaultStep with the first of its two assignments left out
DefaultStep_VarOnly(b, iface) ==
    IF iface \notin DOMAIN b.interface_to_var /\ HasIPrefix(iface)
    THEN [b EXCEPT !.var_to_interface = Put(@, Upper(WithoutFirst(iface)), iface)]
    ELSE b

\* the default for an interface that has no binding yet
DefaultStep(b, iface) ==
    IF iface \notin DOMAIN b.interface_to_var /\ HasIPrefix(iface)
    THEN Bind(b, iface, Upper(WithoutFirst(iface)))
    ELSE b

RECURSIVE ProcessDefaultsFrom(_, _, _)
ProcessDefaultsFrom(b, interfaces, i) ==
    IF i > Len(interfaces) THEN b
    ELSE ProcessDefaultsFrom(DefaultStep(b, interfaces[i]), interfaces, i + 1)

ProcessDefaults(b, interfaces) == ProcessDefaultsFrom(b, interfaces, 1)


(***************************************************************************)
(* External-call discovery.  ext_calls maps a target to its set of method   *)
(* names; a set is kept as the sequence of its members, each once.          *)
(***************************************************************************)
\* SetAdd on a list instead of a set: methods.append(method)
SetAdd_Append(methods, method) == Append(methods, method)

\* methods.add(method)
SetAdd(methods, method) ==
    IF method \in Range(methods) THEN methods ELSE Append(methods, method)

\* AddCall that assigns a fresh set: ext_calls[target] = {method}
AddCall_Replace(ext, target, method) == Put(ext, target, <<method>>)

\* if target not in ext_calls: ext_calls[target] = set()
\* ext_calls[target].add(method)
AddCall(ext, target, method) ==
    Put(ext, target,
        SetAdd(IF target \in DOMAIN ext THEN ext[target] ELSE <<>>, method))

\* every pair of calls added, in order; a pair is <<target, method>>
RECURSIVE AddCalls(_, _, _)
AddCalls(ext, calls, i) ==
    IF i > Len(calls) THEN ext
    ELSE AddCalls(AddCall(ext, calls[i][1], calls[i][2]), calls, i + 1)

RECURSIVE Concat(_)
Concat(seqs) == IF seqs = <<>> THEN <<>> ELSE Head(seqs) \o Concat(Tail(seqs))

\* the objects whose member calls are not external calls
NonContractObjects ==
    {<<"t", "h", "i", "s">>, <<"m", "s", "g">>, <<"b", "l", "o", "c", "k">>, <<"t", "x">>, <<"a", "b", "i">>, <<"a", "d", "d", "r", "e", "s", "s">>, <<"t", "y", "p", "e">>}

\* the names that are not libraries
NonLibraryObjects ==
    {<<"a", "b", "i">>, <<"s", "t", "r", "i", "n", "g">>, <<"b", "y", "t", "e", "s">>, <<"u", "i", "n", "t">>, <<"i", "n", "t">>, <<"a", "d", "d", "r", "e", "s", "s">>}

\* x.method(: matches are (contract_var, method)
IsContractCall(call) == call[1] \notin NonContractObjects

DirectCallPairs(direct_calls) ==
    Concat([i \in 1..Len(direct_calls) |->
              IF IsContractCall(direct_calls[i])
              THEN << <<direct_calls[i][1], direct_calls[i][2]>> >>
              ELSE <<>>])

\* CastTarget that never consults the alias dict
CastTarget_Unresolved(interface_to_var, interface_type) == interface_type

\* Type(arg).method(: matches are (interface_type, argument, method); the
\* target is the variable bound to the interface when there is one
CastTarget(interface_to_var, interface_type) ==
    IF interface_type \in DOMAIN interface_to_var
    THEN interface_to_var[interface_type]
    ELSE interface_type

InterfaceCastPairs(interface_method_calls, interface_to_var) ==
    [i \in 1..Len(interface_method_calls) |->
        <<CastTarget(interface_to_var, interface_method_calls[i][1]),
          interface_method_calls[i][3]>>]

\* Lib.method(arg: matches are (library_name, method, target_obj)
IsLibraryCall(call) == call[1] \notin NonLibraryObjects

LibraryCallPairs(library_calls) ==
    Concat([i \in 1..Len(library_calls) |->
              IF IsLibraryCall(library_calls[i])
              THEN << <<library_calls[i][1], library_calls[i][2]>> >>
              ELSE <<>>])

\* addr.call(abi.encodeWithSignature("method(: matches are (address_var, method)
LowLevelCallPairs(low_level_calls) ==
    [i \in 1..Len(low_level_calls) |->
        <<low_level_calls[i][1], low_level_calls[i][2]>>]

\* a declared function with a well-known name: the method is filed under the
\* variable of every interface of common_interface_methods that is bound
MarkerPairs(method_name, interface_to_var) ==
    LET potential_interfaces == common_interface_methods(method_name)
    IN  Concat([j \in 1..Len(potential_interfaces) |->
                  IF potential_interfaces[j] \in DOMAIN interface_to_var
                  THEN << <<interface_to_var[potential_interfaces[j]], method_name>> >>
                  ELSE <<>>])

CommonMethodPairs(interface_method_markers, interface_to_var) ==
    Concat([i \in 1..Len(interface_method_markers) |->
              MarkerPairs(interface_method_markers[i][1], interface_to_var)])

\* the functions declared in the body of a bound interface
InterfaceBodyMethods(content, iface) ==
    LET interface_match == Search(InterfaceBodyPattern(iface), 1, content)
    IN  IF interface_match # <<>>
        THEN FindIter(FunctionNamePattern, 1, interface_match[1][1])
        ELSE <<>>

InterfaceBodyPairsOf(content, iface, interface_to_var) ==
    IF iface \in DOMAIN interface_to_var
    THEN LET funcs == InterfaceBodyMethods(content, iface)
         IN  [j \in 1..Len(funcs) |-> <<interface_to_var[iface], funcs[j][1]>>]
    ELSE <<>>

InterfaceBodyPairs(content, interfaces, interface_to_var) ==
    Concat([i \in 1..Len(interfaces) |->
              InterfaceBodyPairsOf(content, interfaces[i], interface_to_var)])


(***************************************************************************)
(* The contract descriptor, contract_data.  A dict is a record; the key     *)
(* "return" of a function's dict is there only when a return was found.     *)
(***************************************************************************)
\* [{"type": m.group(1), "name": m.group(2)} for m in matches]
TypedNames(ms) == [i \in 1..Len(ms) |-> [type |-> ms[i][1], name |-> ms[i][2]]]

\* the descriptor as first built: the elements found by the four scans
InitialContractData(contract_name, content) ==
    LET variables == FindIter(VariablePattern, 2, content)
        functions == FindIter(FunctionPattern, 2, content)
        arrays == FindIter(ArrayPattern, 2, content)
    IN  [contractName |-> contract_name,
         variables |-> TypedNames(variables),
         functions |-> [i \in 1..Len(functions) |->
                          [name |-> functions[i][1], params |-> functions[i][2]]],
         arrays |-> TypedNames(arrays),
         structs |-> <<>>]

\* one struct: its name and the fields its body declares
StructData(struct_match) ==
    [name |-> struct_match[1],
     fields |-> TypedNames(FindIter(VariablePattern, 2, struct_match[2]))]

\* the loop over the structs
WithStructs(data, content) ==
    LET structs == FindIter(StructPattern, 2, content)
    IN  [data EXCEPT !.structs = [i \in 1..Len(structs) |-> StructData(structs[i])]]

\* the parameters taken from the whole source text instead of the text
\* between the definition's parentheses
FunctionParameters_WholeText(content, func_name) ==
    LET func_match == Search(FunctionDefinitionPattern(func_name), 1, content)
    IN  IF func_match # <<>>
        THEN TypedNames(FindIter(ParameterPattern, 2, content))
        ELSE <<>>

\* the typed parameters of the first definition of func_name, [] when the
\* definition is not found
FunctionParameters(content, func_name) ==
    LET func_match == Search(FunctionDefinitionPattern(func_name), 1, content)
    IN  IF func_match # <<>>
        THEN TypedNames(FindIter(ParameterPattern, 2, func_match[1][1]))
        ELSE <<>>

\* one function's dict after the loop body: "parameters" is set, and
\* "return" is set when the return pattern matches
FunctionDetails(content, func_data) ==
    LET params == FunctionParameters(content, func_data.name)
        return_match == Search(ReturnPattern(func_data.name), 2, content)
    IN  IF return_match # <<>>
        THEN [name |-> func_data.name, params |-> func_data.params,
              parameters |-> params,
              return |-> [type |-> return_match[1][1], name |-> return_match[1][2]]]
        ELSE [name |-> func_data.name, params |-> func_data.params,
              parameters |-> params]

\* the loop over the functions
WithFunctionDetails(data, content) ==
    [data EXCEPT !.functions =
        [i \in 1..Len(data.functions) |-> FunctionDetails(content, data.functions[i])]]

\* contract_data["externalCalls"]: one dict per target of the table; the
\* order of the list is the order of the dict and is not kept here
ExternalCallsOf(ext) == {[contract |-> t, methods |-> ext[t]] : t \in DOMAIN ext}

\* the prompt's section "External Contract Calls": the targets that are keys
\* of var_to_interface and have methods in the table
BoundCallsSection(v2i, ext) ==
    {[contract |-> c, methods |-> ext[c]] :
        c \in {k \in DOMAIN v2i : k \in DOMAIN ext /\ ext[k] # <<>>}}

\* the prompt's section "All Detected External Calls": the comprehension
\* {contract: list(methods) for contract, methods in externalCalls} unpacks
\* each dict of the list into its two keys, "contract" and "methods"
AllCallsSection(externalCalls) ==
    IF externalCalls = {} THEN EmptyDict
    ELSE Put(EmptyDict, <<"c", "o", "n", "t", "r", "a", "c", "t">>,
             [i \in 1..7 |-> <<<<"m", "e", "t", "h", "o", "d", "s">>[i]>>])

\* the (target, method) pairs the two sections of the prompt show
PromptPairs(v2i, ext) ==
    LET bound == BoundCallsSection(v2i, ext)
        all == AllCallsSection(ExternalCallsOf(ext))
    IN  UNION {{<<e.contract, e.methods[j]>> : j \in 1..Len(e.methods)} : e \in bound}
        \cup UNION {{<<t, all[t][j]>> : j \in 1..Len(all[t])} : t \in DOMAIN all}

\* the contract name generate_type_files hands over: the first match of
\* contract\s+(\w+), <<>> when there is none
ContractNameOf(content) ==
    LET contract_match == Search(ContractPattern, 1, content)
    IN  IF contract_match = <<>> THEN <<>> ELSE contract_match[1][1]

(***************************************************************************)
(* The inputs of the resolver: Solidity texts made of at most MaxStatements *)
(* of the Fragments, each at most once, inside a contract; every choice of  *)
(* fragments is taken in the order of Fragments and in the reverse order.   *)
(***************************************************************************)
MaxStatements == 3

Fragments == <<
    \* interface IPairsContract{function approve(uint a);}
    <<"i", "n", "t", "e", "r", "f", "a", "c", "e", " ", "I", "P", "a", "i", "r", "s", "C", "o", "n", "t", "r", "a", "c", "t", "{", "f", "u", "n", "c", "t", "i", "o", "n", " ", "a", "p", "p", "r", "o", "v", "e", "(", "u", "i", "n", "t", " ", "a", ")", ";", "}">>,
    \* IPairsContract PAIRS=IPairsContract(p);
    <<"I", "P", "a", "i", "r", "s", "C", "o", "n", "t", "r", "a", "c", "t", " ", "P", "A", "I", "R", "S", "=", "I", "P", "a", "i", "r", "s", "C", "o", "n", "t", "r", "a", "c", "t", "(", "p", ")", ";">>,
    \* q=IPairsContract(p);
    <<"q", "=", "I", "P", "a", "i", "r", "s", "C", "o", "n", "t", "r", "a", "c", "t", "(", "p", ")", ";">>,
    \* IPairsContract(addr).approve(y);
    <<"I", "P", "a", "i", "r", "s", "C", "o", "n", "t", "r", "a", "c", "t", "(", "a", "d", "d", "r", ")", ".", "a", "p", "p", "r", "o", "v", "e", "(", "y", ")", ";">>,
    \* address public PAIRSCONTRACT;
    <<"a", "d", "d", "r", "e", "s", "s", " ", "p", "u", "b", "l", "i", "c", " ", "P", "A", "I", "R", "S", "C", "O", "N", "T", "R", "A", "C", "T", ";">>,
    \* contract PairsContract{}
    <<"c", "o", "n", "t", "r", "a", "c", "t", " ", "P", "a", "i", "r", "s", "C", "o", "n", "t", "r", "a", "c", "t", "{", "}">>,
    \* PAIRS.balanceOf(x);
    <<"P", "A", "I", "R", "S", ".", "b", "a", "l", "a", "n", "c", "e", "O", "f", "(", "x", ")", ";">>,
    \* interface Token{}
    <<"i", "n", "t", "e", "r", "f", "a", "c", "e", " ", "T", "o", "k", "e", "n", "{", "}">>,
    \* PAIRS.call(abi.encodeWithSignature("approve(uint256)"));
    <<"P", "A", "I", "R", "S", ".", "c", "a", "l", "l", "(", "a", "b", "i", ".", "e", "n", "c", "o", "d", "e", "W", "i", "t", "h", "S", "i", "g", "n", "a", "t", "u", "r", "e", "(", "\"", "a", "p", "p", "r", "o", "v", "e", "(", "u", "i", "n", "t", "2", "5", "6", ")", "\"", ")", ")", ";">>,
    \* interface IERC20{function balanceOf(address o);}
    <<"i", "n", "t", "e", "r", "f", "a", "c", "e", " ", "I", "E", "R", "C", "2", "0", "{", "f", "u", "n", "c", "t", "i", "o", "n", " ", "b", "a", "l", "a", "n", "c", "e", "O", "f", "(", "a", "d", "d", "r", "e", "s", "s", " ", "o", ")", ";", "}">>
>>

\* the members of a set of indices in increasing order
RECURSIVE Ascending(_)
Ascending(S) ==
    IF S = {} THEN <<>>
    ELSE LET m == CHOOSE x \in S : \A y \in S : x <= y
         IN  <<m>> \o Ascending(S \ {m})

Reverse(seq) == [i \in 1..Len(seq) |-> seq[Len(seq) + 1 - i]]

FragmentChoices ==
    {S \in SUBSET (1..Len(Fragments)) : Cardinality(S) <= MaxStatements}

FragmentOrders ==
    {Ascending(S) : S \in FragmentChoices}
    \cup {Reverse(Ascending(S)) : S \in FragmentChoices}

\* contract C{ <fragments, one per line> }
RenderSource(order) ==
    <<"c", "o", "n", "t", "r", "a", "c", "t", " ", "C", "{", "\n">>
    \o Join([i \in 1..Len(order) |-> Fragments[order[i]]], <<"\n">>)
    \o <<"\n", "}">>

SourceTexts == {RenderSource(order) : order \in FragmentOrders}

(***************************************************************************)
(* State.                                                                   *)
(***************************************************************************)
(***************************************************************************)
(* Sources for the descriptor: contract Vault with at most MaxStatements of *)
(* the ElementStatements, in their order.  Statements 1 and 2 make the      *)
(* source "contract Vault { uint256 public totalDeposits; function          *)
(* deposit(uint256 amount) external {} }".                                  *)
(***************************************************************************)
ElementStatements == <<
    \* uint256 public totalDeposits;
    <<"u", "i", "n", "t", "2", "5", "6", " ", "p", "u", "b", "l", "i", "c", " ", "t", "o", "t", "a", "l", "D", "e", "p", "o", "s", "i", "t", "s", ";">>,
    \* function deposit(uint256 amount) external {}
    <<"f", "u", "n", "c", "t", "i", "o", "n", " ", "d", "e", "p", "o", "s", "i", "t", "(", "u", "i", "n", "t", "2", "5", "6", " ", "a", "m", "o", "u", "n", "t", ")", " ", "e", "x", "t", "e", "r", "n", "a", "l", " ", "{", "}">>,
    \* address[] private owners;
    <<"a", "d", "d", "r", "e", "s", "s", "[", "]", " ", "p", "r", "i", "v", "a", "t", "e", " ", "o", "w", "n", "e", "r", "s", ";">>,
    \* struct Pos { uint size; address who; }
    <<"s", "t", "r", "u", "c", "t", " ", "P", "o", "s", " ", "{", " ", "u", "i", "n", "t", " ", "s", "i", "z", "e", ";", " ", "a", "d", "d", "r", "e", "s", "s", " ", "w", "h", "o", ";", " ", "}">>,
    \* function get(uint[] memory ids) public returns (uint total) {}
    <<"f", "u", "n", "c", "t", "i", "o", "n", " ", "g", "e", "t", "(", "u", "i", "n", "t", "[", "]", " ", "m", "e", "m", "o", "r", "y", " ", "i", "d", "s", ")", " ", "p", "u", "b", "l", "i", "c", " ", "r", "e", "t", "u", "r", "n", "s", " ", "(", "u", "i", "n", "t", " ", "t", "o", "t", "a", "l", ")", " ", "{", "}">>,
    \* function ping();
    <<"f", "u", "n", "c", "t", "i", "o", "n", " ", "p", "i", "n", "g", "(", ")", ";">>,
    \* this.pay(amount);
    <<"t", "h", "i", "s", ".", "p", "a", "y", "(", "a", "m", "o", "u", "n", "t", ")", ";">>
>>

\* contract Vault { <statements, separated by one blank> }
RenderVault(order) ==
    <<"c", "o", "n", "t", "r", "a", "c", "t", " ", "V", "a", "u", "l", "t", " ", "{", " ">>
    \o Join([i \in 1..Len(order) |-> ElementStatements[order[i]]], <<" ">>)
    \o <<" ", "}">>

ElementChoices ==
    {S \in SUBSET (1..Len(ElementStatements)) : Cardinality(S) <= MaxStatements}

DescriptorSources == {RenderVault(Ascending(S)) : S \in ElementChoices}

VaultSource == RenderVault(<<1, 2>>)

(***************************************************************************)
(* The inputs of a run: at most MaxFiles Solidity files, each unreadable,   *)
(* without a contract, the Scenario A source or a file that declares two    *)
(* contracts, Bank and Safe.                                                *)
(***************************************************************************)
MaxFiles == 2

Unreadable == <<"Unreadable">>

\* library L {}
NoContractSource == <<"l", "i", "b", "r", "a", "r", "y", " ", "L", " ", "{", "}">>

\* contract Bank { function pay() public {} } contract Safe {}
BankSource == <<"c", "o", "n", "t", "r", "a", "c", "t", " ", "B", "a", "n", "k", " ", "{", " ", "f", "u", "n", "c", "t", "i", "o", "n", " ", "p", "a", "y", "(", ")", " ", "p", "u", "b", "l", "i", "c", " ", "{", "}", " ", "}", " ", "c", "o", "n", "t", "r", "a", "c", "t", " ", "S", "a", "f", "e", " ", "{", "}">>

FileChoices == {Unreadable, NoContractSource, VaultSource, BankSource}

FileLists == UNION {[1..n -> FileChoices] : n \in 0..MaxFiles}

\* the names of the contracts a text declares
DeclaredNames(text) ==
    LET contracts == FindIter(ContractPattern, 1, text)
    IN  {contracts[i][1] : i \in 1..Len(contracts)}

\* the contract names the files carry, and the output files there can be
OutputNames == UNION {DeclaredNames(c) : c \in FileChoices \ {Unreadable}}

OutputFiles == OutputNames \X Variants

\* the texts the collaborator may answer with
RunReplies == {<<>>, <<"d", "e", "p", "o", "s", "i", "t">>}

VARIABLES
    mode,       \* which part of the program runs: "annotate" or "resolve"
    client,     \* self.client is set
    reply_text, \* the text the collaborator holds for this contract
    response,   \* per variant: what _call_llm returned, Pending before the call
    result,     \* per variant: the future's result, Pending before it is set
    written,    \* per variant: the text written to the output file, or NoFile
    again,      \* per variant: the normaliser applied to the written text
    source_text,      \* content: the text of the Solidity file
    pc,               \* the resolver's position in _generate_type_annotations
    matches,          \* the lists of matches of the patterns, once scanned
    interface_to_var, \* the alias dict interface name -> variable name
    var_to_interface, \* the alias dict variable name -> interface name
    ext_calls,        \* the external-call table target -> set of methods
    contract_data,    \* the contract descriptor, NoData before it is built
    sol_files,           \* the Solidity files of the run, each its content or Unreadable
    log,                 \* how generate_type_files left each file it has handled
    run_pc,              \* the caller's position in the file it is handling
    tasks,               \* the futures of the worker pool, by <<file, variant>>
    total_input_tokens,  \* self.total_input_tokens
    total_output_tokens, \* self.total_output_tokens
    files,               \* the output directory: by <<contract name, variant>>
    now,            \* the UTC time of day datetime.now reports: hour and minute
    model_provider, \* estimate_api_cost's argument model_provider
    use_reasoner,   \* estimate_api_cost's argument use_reasoner
    usage,          \* estimate_api_cost's arguments input_tokens, output_tokens
    discount_hour,  \* the values is_discount_hour has returned, none before the call
    estimate,       \* what estimate_api_cost returned, NotRun before the call
    internal_calls, \* str(call) of the internal calls of the contract, in loop order
    token_calls     \* the lists _detect_token_interactions has returned, none before

normVars == <<client, reply_text, response, result, written, again>>

resolveVars ==
    <<source_text, pc, matches, interface_to_var, var_to_interface, ext_calls,
      contract_data>>

runVars ==
    <<sol_files, log, run_pc, tasks, total_input_tokens, total_output_tokens, files>>

costVars == <<now, model_provider, use_reasoner, usage, discount_hour, estimate>>

parseVars == <<internal_calls, token_calls>>

utilVars == <<costVars, parseVars>>

vars == <<mode, utilVars, normVars, resolveVars, runVars>>

Pending == <<"Pending">>
NoFile == <<"NoFile">>
NotRun == <<"NotRun">>

AllOf(x) == [v \in Variants |-> x]

NoMatches ==
    [direct_instantiations |-> <<>>, var_assignments |-> <<>>,
     interface_calls |-> <<>>, address_vars |-> <<>>, interfaces |-> <<>>,
     contracts |-> <<>>, direct_calls |-> <<>>, interface_method_calls |-> <<>>,
     library_calls |-> <<>>, low_level_calls |-> <<>>,
     interface_method_markers |-> <<>>]

NoData ==
    [contractName |-> <<>>, variables |-> <<>>, functions |-> <<>>,
     arrays |-> <<>>, structs |-> <<>>]

RunIdle ==
    /\ sol_files = <<>>
    /\ log = <<>>
    /\ run_pc = "idle"
    /\ tasks = <<>>
    /\ total_input_tokens = 0
    /\ total_output_tokens = 0
    /\ files = <<>>

CostIdle ==
    /\ now = [hour |-> 0, minute |-> 0]
    /\ model_provider = <<>>
    /\ use_reasoner = FALSE
    /\ usage = [input_tokens |-> 0, output_tokens |-> 0]
    /\ discount_hour = <<>>
    /\ estimate = NotRun

ParseIdle ==
    /\ internal_calls = <<>>
    /\ token_calls = <<>>

UtilIdle == CostIdle /\ ParseIdle

NormIdle ==
    /\ client = FALSE
    /\ reply_text = <<>>
    /\ response = AllOf(Pending)
    /\ result = AllOf(Pending)
    /\ written = AllOf(NoFile)
    /\ again = AllOf(NotRun)

ResolveIdle ==
    /\ source_text = <<>>
    /\ pc = "idle"
    /\ matches = NoMatches
    /\ interface_to_var = EmptyDict
    /\ var_to_interface = EmptyDict
    /\ ext_calls = EmptyDict
    /\ contract_data = NoData

(***************************************************************************)
(* The documents of one contract: SpecNorm.                                 *)
(***************************************************************************)
NormInit ==
    /\ UtilIdle
    /\ mode = "annotate"
    /\ client \in BOOLEAN
    /\ reply_text \in Contents
    /\ response = AllOf(Pending)
    /\ result = AllOf(Pending)
    /\ written = AllOf(NoFile)
    /\ again = AllOf(NotRun)
    /\ ResolveIdle
    /\ RunIdle

\* _generate_type_annotations without a client: both files are created,
\* the token file with the header, the financial file empty
WriteWithoutClient ==
    /\ mode = "annotate"
    /\ ~client
    /\ written = AllOf(NoFile)
    /\ written' = [v \in Variants |->
                     IF v = "token" THEN MinimalDocument(ContractName) ELSE <<>>]
    /\ UNCHANGED <<mode, utilVars, runVars, client, reply_text, response, result, again, resolveVars>>

\* one task of the worker pool: make_api_call for one variant
MakeApiCall(v) ==
    /\ mode = "annotate"
    /\ client
    /\ result[v] = Pending
    /\ \E answered \in BOOLEAN :
          LET r == call_llm(answered, reply_text)
          IN  /\ response' = [response EXCEPT ![v] = r]
              /\ result' = [result EXCEPT ![v] =
                              make_api_call(r, ContractName, FunctionNames,
                                            v = "financial")]
    /\ UNCHANGED <<mode, utilVars, runVars, client, reply_text, written, again, resolveVars>>

\* both futures are joined and the two files are written
WriteFiles ==
    /\ mode = "annotate"
    /\ client
    /\ \A v \in Variants : result[v] # Pending
    /\ written = AllOf(NoFile)
    /\ written' = result
    /\ UNCHANGED <<mode, utilVars, runVars, client, reply_text, response, result, again, resolveVars>>

\* the normaliser applied to the documents it produced
Renormalize ==
    /\ mode = "annotate"
    /\ written # AllOf(NoFile)
    /\ again = AllOf(NotRun)
    /\ again' = [v \in Variants |->
                   process_annotation_response(written[v], ContractName,
                                               FunctionNames, v = "financial")]
    /\ UNCHANGED <<mode, utilVars, runVars, client, reply_text, response, result, written, resolveVars>>

NormNext ==
    \/ WriteWithoutClient
    \/ \E v \in Variants : MakeApiCall(v)
    \/ WriteFiles
    \/ Renormalize

SpecNorm == NormInit /\ [][NormNext]_vars

(***************************************************************************)
(* The resolver of _generate_type_annotations: SpecResolve.  One action per *)
(* loop of the code, in the code's order.                                   *)
(***************************************************************************)
ResolveInit ==
    /\ UtilIdle
    /\ mode = "resolve"
    /\ source_text \in SourceTexts \cup DescriptorSources
    /\ pc = "scan_references"
    /\ matches = NoMatches
    /\ interface_to_var = EmptyDict
    /\ var_to_interface = EmptyDict
    /\ ext_calls = EmptyDict
    /\ contract_data = NoData
    /\ NormIdle
    /\ RunIdle

\* the first group of every match
FirstGroups(ms) == [i \in 1..Len(ms) |-> ms[i][1]]

\* the finditer calls that precede the binding loops
ScanReferences ==
    /\ pc = "scan_references"
    /\ matches' =
         [matches EXCEPT
            !.direct_instantiations = FindIter(DirectInstantiationPattern, 3, source_text),
            !.var_assignments = FindIter(VarAssignmentPattern, 2, source_text),
            !.interface_calls = FindIter(InterfaceCallPattern, 2, source_text),
            !.address_vars = FirstGroups(FindIter(AddressVarPattern, 1, source_text)),
            !.interfaces = FirstGroups(FindIter(InterfacePattern, 1, source_text)),
            !.contracts = FirstGroups(FindIter(ContractPattern, 1, source_text))]
    /\ pc' = "direct_instantiations"
    /\ UNCHANGED <<mode, utilVars, runVars, normVars, source_text, interface_to_var, var_to_interface,
                   ext_calls, contract_data>>

Bindings == [interface_to_var |-> interface_to_var,
             var_to_interface |-> var_to_interface]

\* a binding loop: from position at, the dicts become b, and next follows
BindingLoop(at, b, next) ==
    /\ pc = at
    /\ interface_to_var' = b.interface_to_var
    /\ var_to_interface' = b.var_to_interface
    /\ pc' = next
    /\ UNCHANGED <<mode, utilVars, runVars, normVars, source_text, matches, ext_calls, contract_data>>

BindDirectInstantiations ==
    BindingLoop("direct_instantiations",
                ProcessDirectInstantiations(Bindings, matches.direct_instantiations),
                "var_assignments")

BindVarAssignments ==
    BindingLoop("var_assignments",
                ProcessVarAssignments(Bindings, matches.var_assignments),
                "interface_calls")

BindInterfaceCalls ==
    BindingLoop("interface_calls",
                ProcessInterfaceCalls(Bindings, matches.interface_calls),
                "address_vars")

BindAddressVars ==
    BindingLoop("address_vars",
                ProcessAddressVars(Bindings, matches.address_vars, matches.interfaces),
                "implementations")

BindImplementations ==
    BindingLoop("implementations",
                ProcessImplementations(Bindings, matches.interfaces, matches.contracts),
                "defaults")

BindDefaults ==
    BindingLoop("defaults",
                ProcessDefaults(Bindings, matches.interfaces),
                "scan_calls")

\* the finditer calls that precede the discovery loops
ScanCalls ==
    /\ pc = "scan_calls"
    /\ matches' =
         [matches EXCEPT
            !.direct_calls = FindIter(DirectCallPattern, 2, source_text),
            !.interface_method_calls =
                FindIter(InterfaceMethodCallPattern, 3, source_text),
            !.library_calls = FindIter(LibraryCallPattern, 3, source_text),
            !.low_level_calls = FindIter(LowLevelCallPattern, 2, source_text),
            !.interface_method_markers =
                FindIter(InterfaceMethodMarkerPattern, 1, source_text)]
    /\ pc' = "direct_calls"
    /\ UNCHANGED <<mode, utilVars, runVars, normVars, source_text, interface_to_var, var_to_interface,
                   ext_calls, contract_data>>

\* a discovery loop: from position at, the pairs found are added, next follows
DiscoveryLoop(at, pairs, next) ==
    /\ pc = at
    /\ ext_calls' = AddCalls(ext_calls, pairs, 1)
    /\ pc' = next
    /\ UNCHANGED <<mode, utilVars, runVars, normVars, source_text, matches, interface_to_var,
                   var_to_interface, contract_data>>

AddDirectCalls ==
    DiscoveryLoop("direct_calls", DirectCallPairs(matches.direct_calls),
                  "interface_method_calls")

AddInterfaceMethodCalls ==
    DiscoveryLoop("interface_method_calls",
                  InterfaceCastPairs(matches.interface_method_calls, interface_to_var),
                  "library_calls")

AddLibraryCalls ==
    DiscoveryLoop("library_calls", LibraryCallPairs(matches.library_calls),
                  "low_level_calls")

AddLowLevelCalls ==
    DiscoveryLoop("low_level_calls", LowLevelCallPairs(matches.low_level_calls),
                  "common_methods")

AddCommonMethods ==
    DiscoveryLoop("common_methods",
                  CommonMethodPairs(matches.interface_method_markers, interface_to_var),
                  "interface_bodies")

AddInterfaceBodies ==
    DiscoveryLoop("interface_bodies",
                  InterfaceBodyPairs(source_text, matches.interfaces, interface_to_var),
                  "done")

\* contract_data is built from the four element scans
BuildContractData ==
    /\ pc = "done"
    /\ contract_data' = InitialContractData(ContractNameOf(source_text), source_text)
    /\ pc' = "structs"
    /\ UNCHANGED <<mode, utilVars, runVars, normVars, source_text, matches, interface_to_var,
                   var_to_interface, ext_calls>>

\* the loop over the structs
ProcessStructs ==
    /\ pc = "structs"
    /\ contract_data' = WithStructs(contract_data, source_text)
    /\ pc' = "functions"
    /\ UNCHANGED <<mode, utilVars, runVars, normVars, source_text, matches, interface_to_var,
                   var_to_interface, ext_calls>>

\* the loop over the functions
ProcessFunctions ==
    /\ pc = "functions"
    /\ contract_data' = WithFunctionDetails(contract_data, source_text)
    /\ pc' = "described"
    /\ UNCHANGED <<mode, utilVars, runVars, normVars, source_text, matches, interface_to_var,
                   var_to_interface, ext_calls>>

ResolveNext ==
    \/ ScanReferences
    \/ BindDirectInstantiations
    \/ BindVarAssignments
    \/ BindInterfaceCalls
    \/ BindAddressVars
    \/ BindImplementations
    \/ BindDefaults
    \/ ScanCalls
    \/ AddDirectCalls
    \/ AddInterfaceMethodCalls
    \/ AddLibraryCalls
    \/ AddLowLevelCalls
    \/ AddCommonMethods
    \/ AddInterfaceBodies
    \/ BuildContractData
    \/ ProcessStructs
    \/ ProcessFunctions

SpecResolve == ResolveInit /\ [][ResolveNext]_vars

(***************************************************************************)
(* generate_type_files: the loop over the files, the two tasks of the       *)
(* worker pool for each contract, and the writes: SpecRun.                  *)
(***************************************************************************)
RunInit ==
    /\ UtilIdle
    /\ mode = "run"
    /\ client \in BOOLEAN
    /\ reply_text = <<>>
    /\ response = AllOf(Pending)
    /\ result = AllOf(Pending)
    /\ written = AllOf(NoFile)
    /\ again = AllOf(NotRun)
    /\ ResolveIdle
    /\ sol_files \in FileLists
    /\ log = <<>>
    /\ run_pc = "read"
    /\ tasks = <<>>
    /\ total_input_tokens = 0
    /\ total_output_tokens = 0
    /\ files = [f \in OutputFiles |-> NoFile]

\* the index of sol_file in sol_files
file_pos == Len(log) + 1

\* content, once read
content == sol_files[file_pos]

\* [f["name"] for f in contract_data["functions"]]
FunctionNamesOf(data) == [i \in 1..Len(data.functions) |-> data.functions[i].name]

\* a future that has completed, with a result or with an exception
Completed(k) == tasks[k].pc \in {"done", "failed"}

\* the futures submitted for the file being handled
Submitted == {k \in DOMAIN tasks : k[1] = file_pos}

\* open(sol_file) or f.read() raises: the file is skipped
SkipUnreadable ==
    /\ run_pc = "read"
    /\ file_pos <= Len(sol_files)
    /\ content = Unreadable
    /\ log' = Append(log, "unreadable")
    /\ UNCHANGED <<mode, utilVars, normVars, resolveVars, sol_files, run_pc, tasks,
                   total_input_tokens, total_output_tokens, files>>

\* no contract name is found: the file is skipped
SkipNoContract ==
    /\ run_pc = "read"
    /\ file_pos <= Len(sol_files)
    /\ content # Unreadable
    /\ ContractNameOf(content) = <<>>
    /\ log' = Append(log, "no_contract")
    /\ UNCHANGED <<mode, utilVars, normVars, resolveVars, sol_files, run_pc, tasks,
                   total_input_tokens, total_output_tokens, files>>

\* _generate_type_annotations up to the descriptor; an exception raised on
\* the way is caught by the handler at the end of the method
Analyse ==
    /\ run_pc = "read"
    /\ file_pos <= Len(sol_files)
    /\ content # Unreadable
    /\ ContractNameOf(content) # <<>>
    /\ \E raises \in BOOLEAN :
          IF raises
          THEN /\ run_pc' = "caught"
               /\ UNCHANGED contract_data
          ELSE /\ run_pc' = "annotate"
               /\ contract_data' =
                     WithFunctionDetails(
                         WithStructs(
                             InitialContractData(ContractNameOf(content), content),
                             content),
                         content)
    /\ UNCHANGED <<mode, utilVars, normVars, source_text, pc, matches, interface_to_var,
                   var_to_interface, ext_calls, sol_files, log, tasks,
                   total_input_tokens, total_output_tokens, files>>

\* without a client both files are created with the header
WriteEmptyFiles_Header ==
    /\ run_pc = "annotate"
    /\ ~client
    /\ files' = [files EXCEPT
                   ![<<contract_data.contractName, "token">>] =
                       MinimalDocument(contract_data.contractName),
                   ![<<contract_data.contractName, "financial">>] =
                       MinimalDocument(contract_data.contractName)]
    /\ run_pc' = "returned"
    /\ UNCHANGED <<mode, utilVars, normVars, resolveVars, sol_files, log, tasks,
                   total_input_tokens, total_output_tokens>>

\* without a client both files are created: the token file with the header,
\* the financial file empty
WriteEmptyFiles ==
    /\ run_pc = "annotate"
    /\ ~client
    /\ files' = [files EXCEPT
                   ![<<contract_data.contractName, "token">>] =
                       MinimalDocument(contract_data.contractName),
                   ![<<contract_data.contractName, "financial">>] = <<>>]
    /\ run_pc' = "returned"
    /\ UNCHANGED <<mode, utilVars, normVars, resolveVars, sol_files, log, tasks,
                   total_input_tokens, total_output_tokens>>

\* a future as executor.submit leaves it
NewTask ==
    [pc |-> "request", response |-> Pending, loaded |-> 0, result |-> Pending,
     raised |-> FALSE]

\* with a client the two tasks are submitted, the token task first
SubmitTasks ==
    /\ run_pc = "annotate"
    /\ client
    /\ tasks' = [k \in DOMAIN tasks \cup ({file_pos} \X Variants) |->
                   IF k[1] = file_pos THEN NewTask ELSE tasks[k]]
    /\ run_pc' = "join_token"
    /\ UNCHANGED <<mode, utilVars, normVars, resolveVars, sol_files, log,
                   total_input_tokens, total_output_tokens, files>>

\* _call_llm, the request: it raises, or the reply holds no choice, or the
\* reply holds a text; a reply carries its usage
Request(k) ==
    /\ tasks[k].pc = "request"
    /\ \E outcome \in {"raised", "no_choice", "content"}, text \in RunReplies :
          /\ outcome # "content" => text = <<>>
          /\ tasks' = [tasks EXCEPT
                         ![k].response = call_llm(outcome = "content", text),
                         ![k].pc = IF outcome = "raised" THEN "respond"
                                   ELSE "load_input"]
    /\ UNCHANGED <<mode, utilVars, normVars, resolveVars, sol_files, log, run_pc,
                   total_input_tokens, total_output_tokens, files>>

\* the tokens one reply reports, prompt and completion
UsageTokens == [prompt_tokens |-> 1, completion_tokens |-> 1]

\* self.total_input_tokens += ..., the read of the attribute
LoadInput(k) ==
    /\ tasks[k].pc = "load_input"
    /\ tasks' = [tasks EXCEPT ![k].loaded = total_input_tokens,
                              ![k].pc = "store_input"]
    /\ UNCHANGED <<mode, utilVars, normVars, resolveVars, sol_files, log, run_pc,
                   total_input_tokens, total_output_tokens, files>>

\* self.total_input_tokens += ..., the write of the attribute
StoreInput(k) ==
    /\ tasks[k].pc = "store_input"
    /\ total_input_tokens' = tasks[k].loaded + UsageTokens.prompt_tokens
    /\ tasks' = [tasks EXCEPT ![k].loaded = 0, ![k].pc = "load_output"]
    /\ UNCHANGED <<mode, utilVars, normVars, resolveVars, sol_files, log, run_pc,
                   total_output_tokens, files>>

\* self.total_output_tokens += ..., the read of the attribute
LoadOutput(k) ==
    /\ tasks[k].pc = "load_output"
    /\ tasks' = [tasks EXCEPT ![k].loaded = total_output_tokens,
                              ![k].pc = "store_output"]
    /\ UNCHANGED <<mode, utilVars, normVars, resolveVars, sol_files, log, run_pc,
                   total_input_tokens, total_output_tokens, files>>

\* self.total_output_tokens += ..., the write of the attribute
StoreOutput(k) ==
    /\ tasks[k].pc = "store_output"
    /\ total_output_tokens' = tasks[k].loaded + UsageTokens.completion_tokens
    /\ tasks' = [tasks EXCEPT ![k].loaded = 0, ![k].pc = "respond"]
    /\ UNCHANGED <<mode, utilVars, normVars, resolveVars, sol_files, log, run_pc,
                   total_input_tokens, files>>

\* the response goes through the normaliser
Normalised(r) == r # None /\ r # <<>>

\* make_api_call whose normaliser answers a raising pass with the empty text
make_api_call_guarded_Empty(raises, r, contractName, funcs, is_financial) ==
    IF Normalised(r) /\ raises
    THEN <<>>
    ELSE make_api_call(r, contractName, funcs, is_financial)

\* make_api_call with the try of _process_annotation_response: when a pass
\* raises, the handler answers with the minimal document
make_api_call_guarded(raises, r, contractName, funcs, is_financial) ==
    IF Normalised(r) /\ raises
    THEN MinimalDocument(contractName)
    ELSE make_api_call(r, contractName, funcs, is_financial)

\* the rest of make_api_call: the document is the future's result; an
\* exception raised outside the normaliser's try completes the future with
\* that exception
Respond(k) ==
    /\ tasks[k].pc = "respond"
    /\ \E fault \in {"none", "normaliser", "task"} :
          /\ fault = "normaliser" => Normalised(tasks[k].response)
          /\ tasks' = [tasks EXCEPT
                         ![k].raised = (fault = "normaliser"),
                         ![k].result =
                             IF fault = "task" THEN Pending
                             ELSE make_api_call_guarded(
                                      fault = "normaliser", tasks[k].response,
                                      contract_data.contractName,
                                      FunctionNamesOf(contract_data),
                                      k[2] = "financial"),
                         ![k].pc = IF fault = "task" THEN "failed" ELSE "done"]
    /\ UNCHANGED <<mode, utilVars, normVars, resolveVars, sol_files, log, run_pc,
                   total_input_tokens, total_output_tokens, files>>

\* future.result(): it returns when the task is done and raises the task's
\* exception when the task failed
FutureResult(at, variant, next) ==
    /\ run_pc = at
    /\ Completed(<<file_pos, variant>>)
    /\ run_pc' = IF tasks[<<file_pos, variant>>].pc = "done" THEN next ELSE "unwind"
    /\ UNCHANGED <<mode, utilVars, normVars, resolveVars, sol_files, log, tasks,
                   total_input_tokens, total_output_tokens, files>>

\* token_types = token_future.result()
JoinToken == FutureResult("join_token", "token", "join_financial")

\* financial_types = financial_future.result()
JoinFinancial == FutureResult("join_financial", "financial", "debug")

\* the exception leaves the with block without waiting for the tasks
Unwind_NoWait ==
    /\ run_pc = "unwind"
    /\ run_pc' = "caught"
    /\ UNCHANGED <<mode, utilVars, normVars, resolveVars, sol_files, log, tasks,
                   total_input_tokens, total_output_tokens, files>>

\* the exception leaves the with block: the executor waits for its tasks,
\* and the handler at the end of _generate_type_annotations catches it
Unwind ==
    /\ run_pc = "unwind"
    /\ \A k \in Submitted : Completed(k)
    /\ run_pc' = "caught"
    /\ UNCHANGED <<mode, utilVars, normVars, resolveVars, sol_files, log, tasks,
                   total_input_tokens, total_output_tokens, files>>

\* the debug directory: mkdir is outside the try and may raise
SaveDebug ==
    /\ run_pc = "debug"
    /\ \E made \in BOOLEAN : run_pc' = IF made THEN "write" ELSE "caught"
    /\ UNCHANGED <<mode, utilVars, normVars, resolveVars, sol_files, log, tasks,
                   total_input_tokens, total_output_tokens, files>>

\* the two results are written, the token file first
WriteDocuments ==
    /\ run_pc = "write"
    /\ files' = [files EXCEPT
                   ![<<contract_data.contractName, "token">>] =
                       tasks[<<file_pos, "token">>].result,
                   ![<<contract_data.contractName, "financial">>] =
                       tasks[<<file_pos, "financial">>].result]
    /\ run_pc' = "returned"
    /\ UNCHANGED <<mode, utilVars, normVars, resolveVars, sol_files, log, tasks,
                   total_input_tokens, total_output_tokens>>

\* the loop takes the next file only after a return: an exception that
\* reached the handler is raised again and leaves generate_type_files
NextFile_Reraise ==
    /\ run_pc \in {"returned", "caught"}
    /\ log' = IF run_pc = "returned" THEN Append(log, "written") ELSE log
    /\ tasks' = [k \in {j \in DOMAIN tasks : ~Completed(j)} |-> tasks[k]]
    /\ contract_data' = NoData
    /\ run_pc' = IF run_pc = "returned" THEN "read" ELSE "escaped"
    /\ UNCHANGED <<mode, utilVars, normVars, source_text, pc, matches, interface_to_var,
                   var_to_interface, ext_calls, sol_files,
                   total_input_tokens, total_output_tokens, files>>

\* _generate_type_annotations returns and the loop takes the next file; the
\* futures that have completed are gone with the call
NextFile ==
    /\ run_pc \in {"returned", "caught"}
    /\ log' = Append(log, IF run_pc = "returned" THEN "written" ELSE "raised")
    /\ tasks' = [k \in {j \in DOMAIN tasks : ~Completed(j)} |-> tasks[k]]
    /\ contract_data' = NoData
    /\ run_pc' = "read"
    /\ UNCHANGED <<mode, utilVars, normVars, source_text, pc, matches, interface_to_var,
                   var_to_interface, ext_calls, sol_files,
                   total_input_tokens, total_output_tokens, files>>

\* the loop is over and generate_type_files returns
Return ==
    /\ run_pc = "read"
    /\ file_pos > Len(sol_files)
    /\ run_pc' = "finished"
    /\ UNCHANGED <<mode, utilVars, normVars, resolveVars, sol_files, log, tasks,
                   total_input_tokens, total_output_tokens, files>>

RunNext ==
    \/ SkipUnreadable
    \/ SkipNoContract
    \/ Analyse
    \/ WriteEmptyFiles
    \/ SubmitTasks
    \/ \E k \in DOMAIN tasks :
          \/ Request(k)
          \/ LoadInput(k)
          \/ StoreInput(k)
          \/ LoadOutput(k)
          \/ StoreOutput(k)
          \/ Respond(k)
    \/ JoinToken
    \/ JoinFinancial
    \/ Unwind
    \/ SaveDebug
    \/ WriteDocuments
    \/ NextFile
    \/ Return

SpecRun == RunInit /\ [][RunNext]_vars

(***************************************************************************)
(* Claims about the normaliser and the documents produced (SpecNorm).       *)
(***************************************************************************)
\* the variant's document came out of _process_annotation_response
Normalized(v) == response[v] # Pending /\ response[v] # None /\ response[v] # <<>>

\* the first line of text that is not blank, NoLine when every line is blank
NoLine == <<"NoLine">>

RECURSIVE FirstNonBlankFrom(_, _)
FirstNonBlankFrom(lines, i) ==
    IF i > Len(lines) THEN NoLine
    ELSE IF Strip(lines[i]) # <<>> THEN lines[i]
    ELSE FirstNonBlankFrom(lines, i + 1)

FirstNonBlankLine(text) == FirstNonBlankFrom(Split(text, "\n"), 1)

\* C1: the normaliser is idempotent: applied to a document it produced, for
\* the same contract and variant, it returns that document unchanged.
C1_Idempotent ==
    \A v \in Variants :
        (Normalized(v) /\ written[v] # NoFile /\ again[v] # NotRun)
            => again[v] = written[v]

\* C2: the first non-blank line of each of the two documents written for a
\* contract is exactly the header "[*c], <contractName>", whatever the
\* collaborator did (no client, no content, free text).
C2_HeaderFirst ==
    \A v \in Variants :
        written[v] # NoFile
            => FirstNonBlankLine(written[v]) = HeaderLine(ContractName)

\* the claimed numeric rewrite of one line: every 1e<N> becomes 10^N
RECURSIVE ExpandEveryLiteralFrom(_, _)
ExpandEveryLiteralFrom(line, i) ==
    IF i > Len(line) THEN <<>>
    ELSE IF /\ i + 2 <= Len(line)
            /\ line[i] = "1" /\ line[i + 1] = "e" /\ IsDigitChar(line[i + 2])
         THEN LET digits == DigitRun(line, i + 2)
              IN  IntToStr(Pow10(ParseInt(digits)))
                  \o ExpandEveryLiteralFrom(line, i + 2 + Len(digits))
         ELSE <<line[i]>> \o ExpandEveryLiteralFrom(line, i + 1)

NumericTagged(line) ==
    Contains(line, TagT) \/ Contains(line, TagTa) \/ Contains(line, TagTref)

ClaimedNumericRewrite(line) ==
    IF NumericTagged(line) THEN ExpandEveryLiteralFrom(line, 1) ELSE line

ClaimedNumericRewriteLines(text) ==
    LET lines == Split(text, "\n")
    IN  Join([i \in 1..Len(lines) |-> ClaimedNumericRewrite(lines[i])], <<"\n">>)

\* C9: in the token variant every literal 1e<N> on a line tagged [t], [ta],
\* or [tref], comes out as the decimal expansion of 10^N, and lines with
\* none of the three tags keep the literal: the document is the one obtained
\* by rewriting every literal of every tagged line after the skip reflow.
C9_NumericRewriteExact ==
    Normalized("token") =>
        result["token"] =
            EscapeBracesLines(
              ClaimedNumericRewriteLines(
                Join(StripSkipPrefix(
                       Split(EnsureHeader(response["token"], ContractName), "\n")),
                     <<"\n">>)))

\* a decimal integer, with or without a sign
IsBareInteger(s) ==
    \/ IsDigit(s)
    \/ (Len(s) > 1 /\ s[1] = "-" /\ IsDigit(Tail(s)))

LastPart(line) == LET parts == Split(line, ",") IN parts[Len(parts)]

\* the line carries a [t], or [tref], tag and ends in a bare integer
NeedsSuffixRepair(line) ==
    /\ Contains(line, TagT) \/ Contains(line, TagTref)
    /\ IsBareInteger(Strip(LastPart(line)))

\* out is line with its last token n turned into f:n and nothing else changed
SuffixRepaired(line, out) ==
    LET pin == Split(line, ",")
        pout == Split(out, ",")
    IN  /\ Len(pout) = Len(pin)
        /\ \A k \in 1..(Len(pin) - 1) : pout[k] = pin[k]
        /\ Strip(pout[Len(pout)]) = FPrefix \o Strip(pin[Len(pin)])

\* C10: in the financial variant every line with a [t], or [tref], tag whose
\* last comma-separated token is a bare integer n comes out with the last
\* token f:n and its earlier tokens unchanged.
C10_SuffixRepair ==
    Normalized("financial") =>
        LET inLines == Split(EnsureHeader(response["financial"], ContractName), "\n")
            outLines == Split(result["financial"], "\n")
        IN  /\ Len(outLines) = Len(inLines)
            /\ \A i \in 1..Len(inLines) :
                  NeedsSuffixRepair(inLines[i])
                      => SuffixRepaired(inLines[i], outLines[i])

(***************************************************************************)
(* Claims about the resolver (SpecResolve).                                 *)
(***************************************************************************)
BindingPositions ==
    {"direct_instantiations", "var_assignments", "interface_calls",
     "address_vars", "implementations", "defaults"}

DiscoveryPositions ==
    {"direct_calls", "interface_method_calls", "library_calls",
     "low_level_calls", "common_methods", "interface_bodies"}

\* all six binding heuristics have run
BindingsFinal == pc \in {"scan_calls", "done"} \cup DiscoveryPositions

\* every entry of dict d is an entry of dict e
EntriesKept(d, e) ==
    \A key \in DOMAIN d : key \in DOMAIN e /\ e[key] = d[key]

\* a binding heuristic leaves the entries it found as they were
BindingsKept ==
    pc \in BindingPositions =>
        (EntriesKept(interface_to_var, interface_to_var')
            /\ EntriesKept(var_to_interface, var_to_interface'))

\* C3: binding stability: an entry of interface_to_var or var_to_interface
\* that is set when a binding heuristic starts (set by an earlier heuristic)
\* is the same when that heuristic has run.
C3_BindingStable == [][BindingsKept]_vars

\* C4: after the six heuristics the alias table is one-to-one: no variable
\* is the value of two interfaces, and the two dicts are inverses of each
\* other.
C4_AliasOneToOne ==
    BindingsFinal =>
        /\ \A i1, i2 \in DOMAIN interface_to_var :
              interface_to_var[i1] = interface_to_var[i2] => i1 = i2
        /\ \A iface \in DOMAIN interface_to_var :
              /\ interface_to_var[iface] \in DOMAIN var_to_interface
              /\ var_to_interface[interface_to_var[iface]] = iface
        /\ \A var_name \in DOMAIN var_to_interface :
              /\ var_to_interface[var_name] \in DOMAIN interface_to_var
              /\ interface_to_var[var_to_interface[var_name]] = var_name

ScanPairs ==
    << DirectCallPairs(matches.direct_calls),
       InterfaceCastPairs(matches.interface_method_calls, interface_to_var),
       LibraryCallPairs(matches.library_calls),
       LowLevelCallPairs(matches.low_level_calls),
       CommonMethodPairs(matches.interface_method_markers, interface_to_var),
       InterfaceBodyPairs(source_text, matches.interfaces, interface_to_var) >>

\* the pairs discovered by two or more of the scans
SharedPairs ==
    {pair \in UNION {Range(ScanPairs[k]) : k \in 1..6} :
        Cardinality({k \in 1..6 : pair \in Range(ScanPairs[k])}) >= 2}

\* how many times method is held under target
Occurrences(target, method) ==
    IF target \in DOMAIN ext_calls
    THEN Cardinality({j \in 1..Len(ext_calls[target]) : ext_calls[target][j] = method})
    ELSE 0

\* C6: a (target, method) pair discovered by two or more of the scans is
\* held exactly once in the final external-call table.
C6_SharedPairOnce ==
    pc = "done" =>
        \A pair \in SharedPairs : Occurrences(pair[1], pair[2]) = 1

\* discovery is over and some pair was discovered by two scans
C6_Witness == pc = "done" /\ SharedPairs # {}

IPairsContract == <<"I", "P", "a", "i", "r", "s", "C", "o", "n", "t", "r", "a", "c", "t">>
PAIRS == <<"P", "A", "I", "R", "S">>
balanceOf == <<"b", "a", "l", "a", "n", "c", "e", "O", "f">>
approve == <<"a", "p", "p", "r", "o", "v", "e">>

\* the source has the call sites PAIRS.balanceOf(x) and
\* IPairsContract(addr).approve(y), and PAIRS is bound to IPairsContract
ScenarioC ==
    /\ <<PAIRS, balanceOf>> \in Range(matches.direct_calls)
    /\ \E call \in Range(matches.interface_method_calls) :
          call[1] = IPairsContract /\ call[2] = <<"a", "d", "d", "r">>
                                   /\ call[3] = approve
    /\ IPairsContract \in DOMAIN interface_to_var
    /\ interface_to_var[IPairsContract] = PAIRS
    /\ PAIRS \in DOMAIN var_to_interface
    /\ var_to_interface[PAIRS] = IPairsContract

PairsKept ==
    \A target \in DOMAIN ext_calls :
        /\ target \in DOMAIN ext_calls'
        /\ Range(ext_calls[target]) \subseteq Range(ext_calls'[target])

\* C8: the external-call table only grows: every (target, method) pair held
\* before a step is held after it; no step deletes a target or a method.
C8_TableGrows == [][PairsKept]_vars

\* discovery is over and two different discovery steps added to one target
C8_Witness ==
    /\ pc = "done"
    /\ \E target \in DOMAIN ext_calls :
          /\ <<target, ext_calls[target][1]>> \in Range(ScanPairs[1])
          /\ \E j \in 2..Len(ext_calls[target]) :
                <<target, ext_calls[target][j]>> \notin Range(ScanPairs[1])

(***************************************************************************)
(* Claims about the collaborator's outcomes (SpecNorm).                     *)
(***************************************************************************)
\* the collaborator returned no content for the variant
NoContent(v) == response[v] = None \/ response[v] = <<>>

\* C11: boundary failure: when the collaborator returns no content (None or
\* the empty text) for a variant, the variant's result, and the document
\* written from it, is exactly the minimal document: the header line and a
\* blank line.  This holds for both variants.
C11_BoundaryFailure ==
    \A v \in Variants :
        (NoContent(v) /\ result[v] # Pending) =>
            /\ result[v] = MinimalDocument(ContractName)
            /\ written[v] # NoFile => written[v] = MinimalDocument(ContractName)

\* both documents are written, one from None and one from the empty text
C11_Witness ==
    /\ response["token"] = None
    /\ response["financial"] = <<>>
    /\ written["token"] # NoFile
    /\ written["financial"] # NoFile

\* ---------------------------------------------------------------------
\* Claims about the descriptor (SpecResolve).

Vault == <<"V", "a", "u", "l", "t">>
totalDeposits == <<"t", "o", "t", "a", "l", "D", "e", "p", "o", "s", "i", "t", "s">>
deposit == <<"d", "e", "p", "o", "s", "i", "t">>
amount == <<"a", "m", "o", "u", "n", "t">>

\* C13: scanning the Scenario A source yields the contract name Vault,
\* exactly one variable, totalDeposits, exactly one function, deposit, with
\* exactly one parameter, amount, and no return entry, and empty array and
\* struct lists.
C13_ScenarioADescriptor ==
    (pc = "described" /\ source_text = VaultSource) =>
        /\ contract_data.contractName = Vault
        /\ Len(contract_data.variables) = 1
        /\ contract_data.variables[1].name = totalDeposits
        /\ Len(contract_data.functions) = 1
        /\ contract_data.functions[1].name = deposit
        /\ Len(contract_data.functions[1].parameters) = 1
        /\ contract_data.functions[1].parameters[1].name = amount
        /\ "return" \notin DOMAIN contract_data.functions[1]
        /\ contract_data.arrays = <<>>
        /\ contract_data.structs = <<>>

C13_Witness ==
    /\ pc = "described"
    /\ source_text = VaultSource
    /\ Len(contract_data.functions) = 1
    /\ Len(contract_data.functions[1].parameters) = 1

\* ---------------------------------------------------------------------
\* Claims about a run over the files (SpecRun).

\* the future of the file being handled, for one variant
Future(v) == tasks[<<file_pos, v>>]

\* _generate_type_annotations has returned for the Scenario A source, and
\* whatever the collaborator answered was missing or empty
ScenarioAEmpty ==
    /\ run_pc = "returned"
    /\ content = VaultSource
    /\ client => \A v \in Variants : ~Normalised(Future(v).response)

Bank == <<"B", "a", "n", "k">>

\* the document make_api_call owes for a future: the minimal document when a
\* pass raised, and what the response alone determines otherwise
DocumentOwed(t, contractName, funcs, is_financial) ==
    IF t.raised THEN MinimalDocument(contractName)
    ELSE make_api_call(t.response, contractName, funcs, is_financial)

\* a step in which the task k leaves make_api_call
Responds(k) ==
    /\ k \in DOMAIN tasks /\ k \in DOMAIN tasks'
    /\ tasks[k].pc = "respond" /\ tasks'[k].pc # "respond"

\* a step in which the results of the contract are written
WritesDocuments == run_pc = "write" /\ run_pc' = "returned"

NormaliserFailureIsolated ==
    /\ \A k \in DOMAIN tasks :
          Responds(k) =>
              /\ tasks'[k].raised =>
                    /\ tasks'[k].pc = "done"
                    /\ tasks'[k].result = MinimalDocument(contract_data.contractName)
              /\ \A j \in DOMAIN tasks \ {k} : tasks'[j] = tasks[j]
              /\ files' = files
    /\ WritesDocuments =>
          /\ \A v \in Variants :
                files'[<<contract_data.contractName, v>>] =
                    DocumentOwed(Future(v), contract_data.contractName,
                                 FunctionNamesOf(contract_data), v = "financial")
          /\ \A f \in OutputFiles :
                f[1] # contract_data.contractName => files'[f] = files[f]

\* C14: when a pass of _process_annotation_response raises for one contract
\* and variant, the exception does not escape the task, the task's result is
\* the minimal document, and the sibling variant's document and the
\* documents of the other contracts are what they are without the failure.
C14_NormaliserFailureIsolated == [][NormaliserFailureIsolated]_vars

C14_Witness ==
    /\ run_pc = "returned"
    /\ log = <<"written">>
    /\ sol_files = <<BankSource, VaultSource>>
    /\ client
    /\ Future("token").raised
    /\ ~Future("financial").raised
    /\ Normalised(Future("financial").response)
    /\ files[<<Vault, "token">>] = MinimalDocument(Vault)
    /\ files[<<Vault, "financial">>] # MinimalDocument(Vault)
    /\ files[<<Bank, "token">>] # NoFile

\* the token task failed, the financial task is done, and the exception has
\* reached the handler of _generate_type_annotations
Sibling(v) == IF v = "token" THEN "financial" ELSE "token"

FailedBeside(v) ==
    /\ run_pc = "caught"
    /\ <<file_pos, v>> \in DOMAIN tasks
    /\ Future(v).pc = "done"
    /\ Future(Sibling(v)).pc = "failed"

\* C15, as stated: when the task of one variant fails, the result of the
\* other variant is still retrieved and its document is still written.
C15_TaskFailureIsolated ==
    \A v \in Variants :
        FailedBeside(v) =>
            files[<<contract_data.contractName, v>>] = Future(v).result

\* the tasks that have not completed
Running == {k \in DOMAIN tasks : ~Completed(k)}

\* a step in which one task stores a token counter that another running task
\* is about to read or has read and is about to store
SharedWrite ==
    \E k \in Running, j \in Running :
        /\ k # j
        /\ \/ /\ tasks[k].pc = "store_input" /\ tasks'[k].pc = "load_output"
              /\ tasks[j].pc \in {"load_input", "store_input"}
           \/ /\ tasks[k].pc = "store_output" /\ tasks'[k].pc = "respond"
              /\ tasks[j].pc \in {"load_output", "store_output"}

\* C16, as stated: in every interleaving neither task of a contract writes
\* state that the other task reads or writes.
C16_TasksShareNoState == [][~SharedWrite]_vars

\* C17: contracts are processed one after another: a task runs only while
\* the caller waits for the results of the file it was submitted for, so no
\* call for the next file starts before the current contract is finished
\* with, and at most two calls are in flight, both of the same contract.
C17_OneContractAtATime ==
    /\ \A k \in Running :
          /\ k[1] = file_pos
          /\ run_pc \in {"join_token", "join_financial", "unwind"}
    /\ Cardinality(Running) <= 2

C17_Witness ==
    /\ log = <<"written">>
    /\ run_pc = "join_token"
    /\ \A v \in Variants : Future(v).pc = "request"
    /\ Cardinality(Running) = 2

\* the contract name of each readable file there can be
NameOfFile == [c \in FileChoices \ {Unreadable} |-> ContractNameOf(c)]

\* the file at position i carries a contract
HasContract(i) == sol_files[i] # Unreadable /\ NameOfFile[sol_files[i]] # <<>>

\* C18: generate_type_files reaches every file of the list: a file without
\* a contract name is skipped and produces no artifact, an unreadable file
\* is skipped, an exception raised for one contract is caught, and after
\* each of them the loop goes on until it returns.
C18_PerFileIsolation ==
    /\ run_pc \in {"read", "annotate", "join_token", "join_financial", "unwind",
                   "debug", "write", "returned", "caught", "finished"}
    /\ run_pc = "finished" => Len(log) = Len(sol_files)
    /\ \A i \in 1..Len(log) :
          /\ log[i] = "unreadable" <=> sol_files[i] = Unreadable
          /\ log[i] \in {"written", "raised"} <=> HasContract(i)
    /\ \A f \in OutputFiles :
          files[f] # NoFile =>
              \E i \in 1..Len(sol_files) :
                  /\ i <= file_pos
                  /\ HasContract(i)
                  /\ NameOfFile[sol_files[i]] = f[1]
                  /\ i <= Len(log) => log[i] = "written"

C18_Witness ==
    /\ run_pc = "finished"
    /\ sol_files = <<VaultSource, BankSource>>
    /\ log = <<"raised", "written">>
    /\ files[<<Vault, "token">>] = NoFile
    /\ files[<<Bank, "token">>] # NoFile

\* ---------------------------------------------------------------------
\* Claims about the skip section (SpecNorm).

\* line i of the financial text is a skip line the claim wants prefixed: it
\* is not blank, carries no tag, and names a function or follows a skip line
WantsSkipTag(inLines, outLines, i) ==
    /\ Strip(inLines[i]) # <<>>
    /\ ~StartsWith(inLines[i], <<"[">>)
    /\ \/ NamesFunction(inLines[i], FunctionNames)
       \/ i > 1 /\ StartsWith(outLines[i - 1], TagXf)

\* C19, as stated: in the financial document every non-empty untagged line
\* that names a function of the contract or follows a skip line carries the
\* prefix "[xf], ", each line of a run of such lines and not only the first.
C19_FinancialSkipReflow ==
    Normalized("financial") =>
        LET inLines == Split(EnsureHeader(response["financial"], ContractName), "\n")
            outLines == Split(result["financial"], "\n")
        IN  /\ Len(outLines) = Len(inLines)
            /\ \A i \in 1..Len(inLines) :
                  WantsSkipTag(inLines, outLines, i)
                      => outLines[i] = TagXfComma \o <<" ">> \o Strip(inLines[i])

\* the names the token text carries on its "[xf]," lines
SkipNames(lines) ==
    {Strip(Split(lines[i], ",")[2]) :
        i \in {j \in 1..Len(lines) : StartsWith(lines[j], TagXfComma)}}

\* C20, as stated: in the token document no line starts with "[xf],", every
\* name of an "[xf]," line is on a line of its own, and these names form one
\* block that follows every tagged entry, after a blank line.
C20_TokenSkipReflow ==
    Normalized("token") =>
        LET names == SkipNames(Split(response["token"], "\n"))
            outLines == Split(result["token"], "\n")
            named == {i \in 1..Len(outLines) : outLines[i] \in names}
        IN  /\ \A i \in 1..Len(outLines) : ~StartsWith(outLines[i], TagXfComma)
            /\ \A n \in names : \E i \in named : outLines[i] = n
            /\ \A i \in named : \A j \in (i + 1)..Len(outLines) :
                  ~StartsWith(outLines[j], <<"[">>)
            /\ \A i \in named :
                  i - 1 \notin named => (i > 1 /\ Strip(outLines[i - 1]) = <<>>)

\* ---------------------------------------------------------------------
\* Claims about the passes of the normaliser (SpecNorm).

\* the brace b stands alone at some position of line
LoneBrace(line, b) ==
    \E i \in 1..Len(line) :
        /\ line[i] = b
        /\ i = 1 \/ line[i - 1] # b
        /\ i = Len(line) \/ line[i + 1] # b

\* C21, as stated: in the output of either variant, on every [sefa] line
\* each brace that was single is doubled, opening and closing alike, so no
\* single brace is left on such a line.
C21_BracesDoubled ==
    \A v \in Variants :
        (Normalized(v) /\ result[v] # Pending) =>
            LET outLines == Split(result[v], "\n")
            IN  \A i \in 1..Len(outLines) :
                    Contains(outLines[i], TagSefa) =>
                        /\ ~LoneBrace(outLines[i], "{")
                        /\ ~LoneBrace(outLines[i], "}")

\* C22, as stated: in the financial variant every line whose last token is
\* the bare prefix "f:" comes out ending in "f:-1", trailing whitespace after
\* "f:" included.
C22_TruncatedSuffixCompleted ==
    (Normalized("financial") /\ result["financial"] # Pending) =>
        LET inLines == Split(EnsureHeader(response["financial"], ContractName), "\n")
            outLines == Split(result["financial"], "\n")
        IN  /\ Len(outLines) = Len(inLines)
            /\ \A i \in 1..Len(inLines) :
                  EndsWith(Strip(inLines[i]), FPrefix) =>
                      EndsWith(Strip(outLines[i]), FPrefix \o <<"-", "1">>)

\* the positions of text where a literal 1e<N> starts
LiteralStarts(text) ==
    {i \in 1..(Len(text) - 2) :
        text[i] = "1" /\ text[i + 1] = "e" /\ IsDigitChar(text[i + 2])}

\* the literals of text, each exponent with the number of times it occurs
LiteralBag(text) ==
    LET exps == {DigitRun(text, i + 2) : i \in LiteralStarts(text)}
    IN  [d \in exps |->
            Cardinality({i \in LiteralStarts(text) : DigitRun(text, i + 2) = d})]

\* the number of positions of text where sub stands
CountOf(text, sub) ==
    Cardinality({i \in 1..(Len(text) - Len(sub) + 1) :
                    SubSeq(text, i, i + Len(sub) - 1) = sub})

\* C23: normalising the financial variant leaves every literal 1e<N> of
\* every line as written, and normalising the token variant adds no "f:" to
\* the document.
C23_VariantScoping ==
    /\ (Normalized("financial") /\ result["financial"] # Pending) =>
          LET inLines == Split(EnsureHeader(response["financial"], ContractName), "\n")
              outLines == Split(result["financial"], "\n")
          IN  /\ Len(outLines) = Len(inLines)
              /\ \A i \in 1..Len(inLines) :
                    LiteralBag(outLines[i]) = LiteralBag(inLines[i])
    /\ (Normalized("token") /\ result["token"] # Pending) =>
          CountOf(result["token"], FPrefix) =
              CountOf(EnsureHeader(response["token"], ContractName), FPrefix)

C23_Witness ==
    /\ \A v \in Variants : Normalized(v) /\ result[v] # Pending
    /\ LiteralStarts(response["financial"]) # {}
    /\ Contains(response["financial"], TagT)
    /\ result["token"] # EnsureHeader(response["token"], ContractName)
    /\ result["financial"] # EnsureHeader(response["financial"], ContractName)
    /\ EndsWith(response["token"], FPrefix)

\* the line meets the trigger of no pass: no tag, no function name, no
\* trailing "f:"
Untriggered(line) ==
    /\ ~Contains(line, TagT) /\ ~Contains(line, TagTa) /\ ~Contains(line, TagTref)
    /\ ~Contains(line, TagSefa) /\ ~Contains(line, TagXfComma)
    /\ ~NamesFunction(line, FunctionNames)
    /\ ~EndsWith(Strip(line), FPrefix)

\* the order-preserving ways to place n lines among m lines
Embeddings(n, m) ==
    {f \in [1..n -> 1..m] : \A i \in 1..n : \A j \in 1..n : i < j => f[i] < f[j]}

\* the output lines hold the input lines in their order, the untriggered
\* ones unchanged, and nothing else but the header and blank lines
FramePreserved(inLines, outLines) ==
    \E f \in Embeddings(Len(inLines), Len(outLines)) :
        /\ \A i \in 1..Len(inLines) :
              Untriggered(inLines[i]) => outLines[f[i]] = inLines[i]
        /\ \A j \in 1..Len(outLines) :
              (\A i \in 1..Len(inLines) : f[i] # j) =>
                  \/ outLines[j] = HeaderLine(ContractName)
                  \/ Strip(outLines[j]) = <<>>

\* C24: a line of the candidate document that meets no pass's trigger is
\* emitted character for character, no input line is dropped, the order of
\* the lines is kept, and the only additions are the header with its blank
\* line and blank separator lines.
C24_Frame ==
    \A v \in Variants :
        (Normalized(v) /\ result[v] # Pending) =>
            FramePreserved(Split(response[v], "\n"), Split(result[v], "\n"))

C24_Witness ==
    /\ Normalized("token") /\ result["token"] # Pending
    /\ LET inLines == Split(response["token"], "\n")
       IN  /\ Len(inLines) = 2
           /\ StartsWith(inLines[1], TagXfComma)
           /\ Untriggered(inLines[2])
           /\ Contains(inLines[2], SciPrefix)
           /\ Len(Split(result["token"], "\n")) = 5

\* ---------------------------------------------------------------------
\* Claims about the external-call table and the descriptor (SpecResolve).

\* the call-shape scans have all run
ScansDone == pc \in {"done", "structs", "functions", "described"}

\* C25, as stated: once the call-shape scans have run, the external-call
\* table has no key among this, msg, block, tx, abi, address, type.
C25_NoPseudoObjectTarget ==
    ScansDone => \A target \in DOMAIN ext_calls : target \notin NonContractObjects

\* ---------------------------------------------------------------------
\* Claims about a run over the files, continued (SpecRun).

\* the contracts each readable file declares
DeclaredIn == [c \in FileChoices \ {Unreadable} |-> DeclaredNames(c)]

\* C26, as stated: for a source file that declares n >= 1 contracts, n
\* pairs of output documents are written, one pair per declared contract.
C26_OnePairPerContract ==
    run_pc = "returned" =>
        \A name \in DeclaredIn[content] : \A v \in Variants :
            files[<<name, v>>] # NoFile

\* C27, as stated: every (target, method) pair of the final external-call
\* table, targets bound to no interface included, appears with its target
\* and its method in the structured summary put into the prompt.
C27_TableReachesPrompt ==
    pc = "described" =>
        \A t \in DOMAIN ext_calls : \A j \in 1..Len(ext_calls[t]) :
            <<t, ext_calls[t][j]>> \in PromptPairs(var_to_interface, ext_calls)

\* task k writes the counter: it leaves the position `at` for `next`
WritesCounter(k, at, next) == tasks[k].pc = at /\ tasks'[k].pc = next

\* every write of a counter adds the reply's usage to the value the counter
\* holds at the write
AddsUsage ==
    \A k \in DOMAIN tasks :
        /\ WritesCounter(k, "store_input", "load_output") =>
               total_input_tokens' = total_input_tokens + UsageTokens.prompt_tokens
        /\ WritesCounter(k, "store_output", "respond") =>
               total_output_tokens' = total_output_tokens + UsageTokens.completion_tokens

\* C28, as stated: when the two tasks of one contract both complete a call,
\* total_input_tokens and total_output_tokens end at their value before the
\* calls plus the sum of both calls' usage, in every interleaving: no write
\* of a counter loses the other task's update.
C28_NoLostUpdate == [][AddsUsage]_vars

(***************************************************************************)
(* The cost estimate of src/src/utils/retro_cli.py: SpecCost.  Prices are   *)
(* kept in thousandths of a dollar per million tokens, and a cost in        *)
(* billionths of a dollar, so that the code's float arithmetic is exact     *)
(* integer arithmetic here.                                                 *)
(***************************************************************************)
\* s.lower()
Lower(s) ==
    [i \in 1..Len(s) |->
        IF s[i] \in UpperLetters
        THEN LowerSeq[CHOOSE j \in 1..26 : UpperSeq[j] = s[i]]
        ELSE s[i]]

DeepSeek == <<"d", "e", "e", "p", "s", "e", "e", "k">>
DeepSeekReasoner == <<"d", "e", "e", "p", "s", "e", "e", "k", "-", "r", "e", "a", "s", "o", "n", "e", "r">>
OpenAI == <<"o", "p", "e", "n", "a", "i">>

PRICING ==
    (DeepSeek :> [input |-> [standard |-> 270, discount |-> 135],
                  output |-> [standard |-> 1100, discount |-> 550]])
    @@ (DeepSeekReasoner :> [input |-> [standard |-> 550, discount |-> 135],
                             output |-> [standard |-> 2190, discount |-> 550]])
    @@ (OpenAI :> [input |-> [gpt4o |-> 5000], output |-> [gpt4o |-> 15000]])

\* the providers and the token counts the estimate is asked for
Providers == {DeepSeek, <<"D", "e", "e", "p", "S", "e", "e", "k">>, OpenAI, <<"o", "t", "h", "e", "r">>}

Usages == {[input_tokens |-> 0, output_tokens |-> 0],
           [input_tokens |-> 1000, output_tokens |-> 500]}

Clock == [hour : 0..23, minute : 0..59]

\* is_discount_hour, t being datetime.datetime.now(datetime.UTC)
is_discount_hour(t) ==
    LET current_minutes == t.hour * 60 + t.minute
        discount_start == 16 * 60 + 30
        discount_end == 24 * 60 + 30
    IN  current_minutes >= discount_start \/ current_minutes <= discount_end

\* estimate_api_cost: the pair (discount_status, total_cost)
estimate_api_cost(t, input_tokens, output_tokens, provider, reasoner) ==
    IF Lower(provider) = DeepSeek
    THEN LET rate_type == IF is_discount_hour(t) THEN "discount" ELSE "standard"
             model_key == IF reasoner THEN DeepSeekReasoner ELSE DeepSeek
             discount_status == IF rate_type = "discount" THEN "DISCOUNT RATE"
                                ELSE "STANDARD RATE"
             input_cost == input_tokens * PRICING[model_key].input[rate_type]
             output_cost == output_tokens * PRICING[model_key].output[rate_type]
         IN  <<discount_status, input_cost + output_cost>>
    ELSE IF Lower(provider) = OpenAI
    THEN LET input_cost == input_tokens * PRICING[OpenAI].input.gpt4o
             output_cost == output_tokens * PRICING[OpenAI].output.gpt4o
         IN  <<"STANDARD RATE", input_cost + output_cost>>
    ELSE <<"Unknown provider", 0>>

CostInit ==
    /\ mode = "cost"
    /\ now \in Clock
    /\ model_provider \in Providers
    /\ use_reasoner \in BOOLEAN
    /\ usage \in Usages
    /\ discount_hour = <<>>
    /\ estimate = NotRun
    /\ ParseIdle
    /\ NormIdle
    /\ ResolveIdle
    /\ RunIdle

\* a call of is_discount_hour()
IsDiscountHour ==
    /\ mode = "cost"
    /\ discount_hour = <<>>
    /\ discount_hour' = <<is_discount_hour(now)>>
    /\ UNCHANGED <<mode, parseVars, normVars, resolveVars, runVars, now,
                   model_provider, use_reasoner, usage, estimate>>

\* a call of estimate_api_cost(input_tokens, output_tokens, model_provider,
\* use_reasoner)
EstimateApiCost ==
    /\ mode = "cost"
    /\ estimate = NotRun
    /\ estimate' = estimate_api_cost(now, usage.input_tokens, usage.output_tokens,
                                     model_provider, use_reasoner)
    /\ UNCHANGED <<mode, parseVars, normVars, resolveVars, runVars, now,
                   model_provider, use_reasoner, usage, discount_hour>>

CostNext == IsDiscountHour \/ EstimateApiCost

SpecCost == CostInit /\ [][CostNext]_vars

\* minutes since midnight of the time the call reads
MinuteOfDay == now.hour * 60 + now.minute

\* C29, as stated: is_discount_hour returns true exactly when the UTC time
\* lies in the window 16:30-00:30: for the minute of the day m it is true
\* iff m >= 990 or m <= 30, and false for every minute from 00:31 to 16:29.
C29_DiscountWindow ==
    \A i \in 1..Len(discount_hour) :
        discount_hour[i] <=> (MinuteOfDay >= 990 \/ MinuteOfDay <= 30)

(***************************************************************************)
(* The token interactions of src/src/core/parser.py: SpecParse.  The calls *)
(* of the contract's functions and nodes are kept as one list of str(call),*)
(* in the order of the three loops; an entry of token_calls keeps its call,*)
(* token_address and call_type.                                            *)
(***************************************************************************)
MaxCalls == 2

\* what str(call) can be
CallStrings ==
    {<<"t", "o", "k", "e", "n", ".", "b", "a", "l", "a", "n", "c", "e", "O", "f", "(", "a", ")">>,
     <<"t", "o", "k", "e", "n", ".", "t", "r", "a", "n", "s", "f", "e", "r", "(", "a", ",", " ", "b", ")">>,
     <<"t", "o", "k", "e", "n", ".", "t", "r", "a", "n", "s", "f", "e", "r", "F", "r", "o", "m", "(", "a", ",", " ", "b", ",", " ", "c", ")">>,
     <<"t", "o", "k", "e", "n", ".", "a", "p", "p", "r", "o", "v", "e", "(", "a", ",", " ", "b", ")">>,
     <<"t", "o", "k", "e", "n", ".", "a", "l", "l", "o", "w", "a", "n", "c", "e", "(", "a", ",", " ", "b", ")">>,
     <<"_", "m", "i", "n", "t", "(", "a", ")">>,
     <<"T", "R", "A", "N", "S", "F", "E", "R", "F", "R", "O", "M">>,
     <<"s", "a", "f", "e", "A", "p", "p", "r", "o", "v", "e", "(", "a", ")">>,
     <<"b", "a", "l", "a", "n", "c", "e", "O", "f", "A", "f", "t", "e", "r", "T", "r", "a", "n", "s", "f", "e", "r", "F", "r", "o", "m">>}

CallLists == UNION {[1..n -> CallStrings] : n \in 0..MaxCalls}

TokenCallNames ==
    <<<<"b", "a", "l", "a", "n", "c", "e", "o", "f">>,
      <<"t", "r", "a", "n", "s", "f", "e", "r">>,
      <<"t", "r", "a", "n", "s", "f", "e", "r", "f", "r", "o", "m">>,
      <<"a", "p", "p", "r", "o", "v", "e">>,
      <<"a", "l", "l", "o", "w", "a", "n", "c", "e">>>>

\* ContractParser._extract_token_address
extract_token_address(call_str) == None

\* ContractParser._get_call_type
get_call_type(call_str) ==
    IF Contains(call_str, <<"b", "a", "l", "a", "n", "c", "e", "o", "f">>) THEN "balanceOf"
    ELSE IF Contains(call_str, <<"t", "r", "a", "n", "s", "f", "e", "r">>) THEN "transfer"
    ELSE IF Contains(call_str, <<"t", "r", "a", "n", "s", "f", "e", "r", "f", "r", "o", "m">>) THEN "transferFrom"
    ELSE IF Contains(call_str, <<"a", "p", "p", "r", "o", "v", "e">>) THEN "approve"
    ELSE IF Contains(call_str, <<"a", "l", "l", "o", "w", "a", "n", "c", "e">>) THEN "allowance"
    ELSE "unknown"

\* the loop of _detect_token_interactions from the i-th call on
RECURSIVE DetectFrom(_, _, _)
DetectFrom(calls, i, found) ==
    IF i > Len(calls) THEN found
    ELSE LET call_str == Lower(calls[i])
         IN  IF \E n \in 1..Len(TokenCallNames) : Contains(call_str, TokenCallNames[n])
             THEN DetectFrom(calls, i + 1,
                      Append(found, [call |-> call_str,
                                     token_address |-> extract_token_address(call_str),
                                     call_type |-> get_call_type(call_str)]))
             ELSE DetectFrom(calls, i + 1, found)

\* ContractParser._detect_token_interactions
detect_token_interactions(calls) == DetectFrom(calls, 1, <<>>)

ParseInit ==
    /\ mode = "parse"
    /\ internal_calls \in CallLists
    /\ token_calls = <<>>
    /\ CostIdle
    /\ NormIdle
    /\ ResolveIdle
    /\ RunIdle

\* a call of _detect_token_interactions(contract)
DetectTokenInteractions ==
    /\ mode = "parse"
    /\ token_calls = <<>>
    /\ token_calls' = <<detect_token_interactions(internal_calls)>>
    /\ UNCHANGED <<mode, costVars, normVars, resolveVars, runVars, internal_calls>>

ParseNext == DetectTokenInteractions

SpecParse == ParseInit /\ [][ParseNext]_vars

\* C30, as stated: _get_call_type classifies every token call by its
\* method: a lower-cased call string that contains transferfrom and not
\* balanceof yields transferFrom, not transfer (and so transferFrom is one
\* of the results some call string yields).
C30_TransferFromClassified ==
    \A r \in 1..Len(token_calls) :
        \A i \in 1..Len(token_calls[r]) :
            (/\ Contains(token_calls[r][i].call, <<"t", "r", "a", "n", "s", "f", "e", "r", "f", "r", "o", "m">>)
             /\ ~Contains(token_calls[r][i].call, <<"b", "a", "l", "a", "n", "c", "e", "o", "f">>))
            => token_calls[r][i].call_type = "transferFrom"

=============================================================================
